---- MODULE Spec2Model ----
(***************************************************************************)
(* Verification model of alist-encrypt-go: the learned-strategy memo and   *)
(* the size-resolution handler, the redirect registry, the range-aware     *)
(* decrypting download, the encrypting upload, the WebDAV adapter and the  *)
(* rule resolver.                                                          *)
(*                                                                         *)
(* Every subsystem has its own group of variables and its own              *)
(* specification; a specification leaves the other groups untouched.       *)
(* Times are minutes.                                                      *)
(***************************************************************************)
EXTENDS Integers, Sequences, FiniteSets, TLC

VARIABLES
    \* learned-strategy memo (handler/strategy_cache.go, handler/proxy_strategy.go)
    strategies,     \* StrategyCache.strategies: dirPath -> PathStrategy or NoEntry
    scNow,          \* wall clock seen by the memo
    scHistory,      \* history: per directory, the outcomes recorded so far
    scReq,          \* per request: position inside getFileSizeWithStrategy
    \* decrypting download (handler/proxy.go HandleDownload, proxy/stream.go)
    dlBackend,      \* the backend: real path -> stored object
    dlFileDAO,      \* FileDAO: display path -> cached FileInfo
    dl,             \* the exchange in hand: request, upstream answer, response
    \* redirect registry (handler/proxy.go RegisterRedirect, HandleRedirect)
    redirectMap,    \* ProxyHandler.redirectMap: key -> redirectInfo
    redirectKeys,   \* ProxyHandler.redirectKeys: keys in registration order
    rdNow,          \* wall clock seen by the registry
    rdSwept,        \* the instant of the sweeper's last run
    rdNano,         \* registrations so far: orders the UnixNano readings
    rdIssued,       \* history: every key RegisterRedirect has returned
    rdPending,      \* keys of the RegisterRedirect calls that have stored
                    \* their entry and not yet taken keysMu
    rdLedger,       \* history: key -> the redirectInfo registered for it
    rdOrder,        \* history: the keys in the order they were listed
    rd,             \* the /redirect/ exchange in hand
    \* WebDAV adapter, uploads and size probes (handler/webdav.go,
    \* handler/alist.go, handler/prefetch.go, handler/proxy_strategy.go)
    dvBackend,      \* the backend: real path -> stored object
    dvFileDAO,      \* FileDAO: path -> cached FileInfo
    dvEncPathMap,   \* FileDAO.encPathMap: display path -> encrypted path
    dvFileSizeCache,\* FileSizeCache.entries: real path -> size
    dvUploads,      \* uploads so far
    dv,             \* the exchange in hand
    \* rule resolver (dao/file.go PasswdDAO, handler/api.go SaveAlistConfig)
    pwList,         \* cfg.AlistServer.PasswdList: the rules in configured order
    pwCache,        \* PasswdDAO.cache: path -> cached lookup result
    pwNow,          \* wall clock seen by the cache
    pwOverrode,     \* history: a lookup has yielded a folder password
    pw,             \* the lookup in hand
    \* upstream requests of downloads (proxy/stream.go, httputil)
    ft,             \* the download in hand with the headers it carried
    \* directory listings (handler/alist.go HandleFsList)
    ls,             \* the listing request in hand and its decrypt workers
    \* library functions called on their own (encryption package)
    calc,           \* the call in hand: its arguments and what it returned
    \* the copy buffers of the stream proxy (proxy/stream.go bufferPool)
    bufferPool,     \* the buffers lying in the sync.Pool
    bufMade,        \* buffers allocated by New so far
    bq,             \* per request, where it stands and the buffer it holds
    \* generic TTL cache and its single flight (config/config.go Cache, cache/singleflight.go)
    ccItems,        \* Cache.items: key -> CacheItem
    ccNow,          \* wall clock seen by the cache
    sfM,            \* SingleFlight.m: key -> the call in flight, 0 for none
    sfCall,         \* the calls made so far: call -> its key, result and WaitGroup state
    cg,             \* the goroutines that use the cache and where each one stands
    \* file-size cache with its eviction list (dao/filesize_cache.go)
    fsEntries,      \* FileSizeCache.entries: path -> entry
    fsLru,          \* FileSizeCache.lruList
    fsNow,          \* wall clock seen by the file-size cache
    fsSince,        \* per path, what happened since its last Set
    fsLast          \* the last Get and what it returned

strategyVars == <<strategies, scNow, scHistory, scReq>>

downloadVars == <<dlBackend, dlFileDAO, dl>>

redirectVars == <<redirectMap, redirectKeys, rdNow, rdSwept, rdNano, rdIssued, rdPending, rdLedger, rdOrder, rd>>

davVars == <<dvBackend, dvFileDAO, dvEncPathMap, dvFileSizeCache, dvUploads, dv>>

resolverVars == <<pwList, pwCache, pwNow, pwOverrode, pw>>

fetchVars == <<ft>>

listVars == <<ls>>

calcVars == <<calc>>

sizesVars == <<fsEntries, fsLru, fsNow, fsSince, fsLast>>

cacheVars == <<ccItems, ccNow, sfM, sfCall, cg>>

poolVars == <<bufferPool, bufMade, bq>>

vars == <<strategyVars, downloadVars, redirectVars, davVars, resolverVars, fetchVars,
         listVars, calcVars, poolVars, cacheVars, sizesVars>>

otherThanStrategy ==
    <<downloadVars, redirectVars, davVars, resolverVars, fetchVars, listVars, calcVars, poolVars, cacheVars, sizesVars>>

otherThanDownload ==
    <<strategyVars, redirectVars, davVars, resolverVars, fetchVars, listVars, calcVars, poolVars, cacheVars, sizesVars>>

otherThanRedirect ==
    <<strategyVars, downloadVars, davVars, resolverVars, fetchVars, listVars, calcVars, poolVars, cacheVars, sizesVars>>

otherThanDav ==
    <<strategyVars, downloadVars, redirectVars, resolverVars, fetchVars, listVars, calcVars, poolVars, cacheVars, sizesVars>>

otherThanResolver ==
    <<strategyVars, downloadVars, redirectVars, davVars, fetchVars, listVars, calcVars, poolVars, cacheVars, sizesVars>>

otherThanFetch ==
    <<strategyVars, downloadVars, redirectVars, davVars, resolverVars, listVars, calcVars, poolVars, cacheVars, sizesVars>>

otherThanList ==
    <<strategyVars, downloadVars, redirectVars, davVars, resolverVars, fetchVars, calcVars, poolVars, cacheVars, sizesVars>>

otherThanCalc ==
    <<strategyVars, downloadVars, redirectVars, davVars, resolverVars, fetchVars, listVars, poolVars, cacheVars, sizesVars>>

otherThanSizes ==
    <<strategyVars, downloadVars, redirectVars, davVars, resolverVars, fetchVars, listVars, calcVars, poolVars, cacheVars>>

otherThanCache ==
    <<strategyVars, downloadVars, redirectVars, davVars, resolverVars, fetchVars, listVars, calcVars, poolVars, sizesVars>>

otherThanPool ==
    <<strategyVars, downloadVars, redirectVars, davVars, resolverVars, fetchVars, listVars, calcVars, cacheVars, sizesVars>>

(***************************************************************************)
(* Generic helpers                                                         *)
(***************************************************************************)
None == "none"

Last(s) == s[Len(s)]

(***************************************************************************)
(* Strings are sequences of one-character strings, so that the code's      *)
(* prefix tests, splits and number parsing are computed, not assumed.      *)
(***************************************************************************)
Digits == <<"0", "1", "2", "3", "4", "5", "6", "7", "8", "9">>

IsDigit(c) == \E i \in 1..10 : Digits[i] = c

DigitValue(c) == (CHOOSE i \in 1..10 : Digits[i] = c) - 1

\* strings.HasPrefix
HasPrefix(s, prefix) ==
    /\ Len(s) >= Len(prefix)
    /\ SubSeq(s, 1, Len(prefix)) = prefix

\* strings.TrimPrefix
TrimPrefix(s, prefix) ==
    IF HasPrefix(s, prefix) THEN SubSeq(s, Len(prefix) + 1, Len(s)) ELSE s

\* strings.Split on a one-character separator: always at least one part.
RECURSIVE SplitFrom(_, _, _, _)
SplitFrom(s, sep, i, part) ==
    IF i > Len(s) THEN <<part>>
    ELSE IF s[i] = sep THEN <<part>> \o SplitFrom(s, sep, i + 1, <<>>)
    ELSE SplitFrom(s, sep, i + 1, Append(part, s[i]))

Split(s, sep) == SplitFrom(s, sep, 1, <<>>)

\* strings.TrimSpace (the model's only white space is the blank).
RECURSIVE TrimLeft(_)
TrimLeft(s) == IF s # <<>> /\ s[1] = " " THEN TrimLeft(Tail(s)) ELSE s

RECURSIVE TrimRight(_)
TrimRight(s) ==
    IF s # <<>> /\ s[Len(s)] = " " THEN TrimRight(SubSeq(s, 1, Len(s) - 1)) ELSE s

TrimSpace(s) == TrimRight(TrimLeft(s))

RECURSIVE DecimalValue(_, _)
DecimalValue(s, acc) ==
    IF s = <<>> THEN acc ELSE DecimalValue(Tail(s), acc * 10 + DigitValue(s[1]))

SignedValue(negative, digits) ==
    IF digits = <<>> \/ \E i \in 1..Len(digits) : ~IsDigit(digits[i])
    THEN [ok |-> FALSE, value |-> 0]
    ELSE [ok |-> TRUE,
          value |-> IF negative THEN 0 - DecimalValue(digits, 0)
                    ELSE DecimalValue(digits, 0)]

\* strconv.ParseInt(s, 10, 64): an optional sign, then one or more digits.
\* [ok, value]; the model feeds it numbers of at most nine digits.
ParseInt(s) ==
    IF s # <<>> /\ s[1] \in {"+", "-"} THEN SignedValue(s[1] = "-", Tail(s))
    ELSE SignedValue(FALSE, s)

BytesPrefix == <<"b", "y", "t", "e", "s", "=">>

\* The Range headers a client sends in the model.
HdrNone == <<>>    \* no Range header
HdrBounded == <<"b", "y", "t", "e", "s", "=", "0", "-", "9", "9">>    \* 'bytes=0-99'
HdrOpen == <<"b", "y", "t", "e", "s", "=", "5", "0", "-">>    \* 'bytes=50-'
HdrSuffix == <<"b", "y", "t", "e", "s", "=", "-", "5", "0", "0">>    \* 'bytes=-500'
HdrClamped == <<"b", "y", "t", "e", "s", "=", "1", "0", "-", "5", "0", "0", "0">>    \* 'bytes=10-5000'
HdrBeyond == <<"b", "y", "t", "e", "s", "=", "5", "0", "0", "0", "-", "6", "0", "0", "0">>    \* 'bytes=5000-6000'
HdrMulti == <<"b", "y", "t", "e", "s", "=", "0", "-", "9", ",", " ", "2", "0", "-", "2", "9">>    \* 'bytes=0-9, 20-29'
HdrMultiBeyond == <<"b", "y", "t", "e", "s", "=", "0", "-", "9", ",", "5", "0", "0", "0", "-", "6", "0", "0", "0">>    \* 'bytes=0-9,5000-6000'
HdrBadUnit == <<"i", "t", "e", "m", "s", "=", "0", "-", "5">>    \* 'items=0-5'
HdrNotNumber == <<"b", "y", "t", "e", "s", "=", "a", "b", "c">>    \* 'bytes=abc'
HdrReversed == <<"b", "y", "t", "e", "s", "=", "9", "-", "5">>    \* 'bytes=9-5'
HdrEmptySet == <<"b", "y", "t", "e", "s", "=">>    \* 'bytes='
HdrPlusSign == <<"b", "y", "t", "e", "s", "=", "+", "5", "-", "9">>    \* 'bytes=+5-9'

RangeHeaders == {HdrNone, HdrBounded, HdrOpen, HdrSuffix, HdrClamped, HdrBeyond, HdrMulti, HdrMultiBeyond, HdrBadUnit, HdrNotNumber, HdrReversed, HdrEmptySet, HdrPlusSign}

(***************************************************************************)
(* httputil.ParseRange                                                     *)
(***************************************************************************)
NoRangeError == "nil"

RangeSpecError(err) == [err |-> err, Start |-> 0, End |-> 0]

\* "-N": the last N bytes
SuffixRange(suffix, fileSize) ==
    IF ~suffix.ok \/ suffix.value <= 0 THEN RangeSpecError("invalid suffix range")
    ELSE [err |-> NoRangeError,
          Start |-> fileSize - (IF suffix.value > fileSize THEN fileSize
                                ELSE suffix.value),
          End |-> fileSize - 1]

\* "N-": from N to the end
OpenRange(start, fileSize) ==
    IF ~start.ok \/ start.value < 0 THEN RangeSpecError("invalid start position")
    ELSE [err |-> NoRangeError, Start |-> start.value, End |-> fileSize - 1]

\* "N-M"
BoundedRange(start, end) ==
    IF ~start.ok \/ ~end.ok \/ start.value < 0 \/ end.value < start.value
    THEN RangeSpecError("invalid range")
    ELSE [err |-> NoRangeError, Start |-> start.value, End |-> end.value]

RangeOfParts(parts, fileSize) ==
    IF Len(parts) # 2 THEN RangeSpecError("invalid range spec")
    ELSE IF parts[1] = <<>> THEN SuffixRange(ParseInt(parts[2]), fileSize)
    ELSE IF parts[2] = <<>> THEN OpenRange(ParseInt(parts[1]), fileSize)
    ELSE BoundedRange(ParseInt(parts[1]), ParseInt(parts[2]))

\* One range-spec: [err, Start, End] before the satisfiability test.
ParseRangeSpec(spec, fileSize) == RangeOfParts(Split(spec, "-"), fileSize)

\* The loop over the range-specs: the first error ends it.
RECURSIVE ParseRangeSpecs(_, _, _, _)
\* Mutation of CheckedRange: the end is not clamped to the file size.
CheckedRangeUnclamped(r, specs, i, fileSize, ranges) ==
    IF r.err # NoRangeError THEN [err |-> r.err, Ranges |-> <<>>]
    ELSE IF r.Start >= fileSize
    THEN [err |-> "requested range not satisfiable", Ranges |-> <<>>]
    ELSE ParseRangeSpecs(specs, i + 1, fileSize,
                         Append(ranges, [Start |-> r.Start, End |-> r.End]))

CheckedRange(r, specs, i, fileSize, ranges) ==
    IF r.err # NoRangeError THEN [err |-> r.err, Ranges |-> <<>>]
    ELSE IF r.Start >= fileSize
    THEN [err |-> "requested range not satisfiable", Ranges |-> <<>>]
    ELSE ParseRangeSpecs(specs, i + 1, fileSize,
             Append(ranges,
                    [Start |-> r.Start,
                     End   |-> IF r.End >= fileSize THEN fileSize - 1 ELSE r.End]))

TrimmedSpec(spec, specs, i, fileSize, ranges) ==
    IF spec = <<>> THEN ParseRangeSpecs(specs, i + 1, fileSize, ranges)
    ELSE CheckedRange(ParseRangeSpec(spec, fileSize), specs, i, fileSize, ranges)

ParseRangeSpecs(specs, i, fileSize, ranges) ==
    IF i > Len(specs) THEN [err |-> NoRangeError, Ranges |-> ranges]
    ELSE TrimmedSpec(TrimSpace(specs[i]), specs, i, fileSize, ranges)

\* ParseRange: [err, Ranges]; the code's nil request is an empty Ranges.
ParseRange(rangeHeader, fileSize) ==
    IF rangeHeader = <<>> THEN [err |-> NoRangeError, Ranges |-> <<>>]
    ELSE IF ~HasPrefix(rangeHeader, BytesPrefix)
    THEN [err |-> "invalid range header format", Ranges |-> <<>>]
    ELSE ParseRangeSpecs(Split(TrimPrefix(rangeHeader, BytesPrefix), ","), 1,
                         fileSize, <<>>)

\* Range.ContentLength
ContentLength(r) ==
    IF r.End < r.Start THEN 0
    ELSE IF r.End - r.Start + 1 < 0 THEN 0
    ELSE r.End - r.Start + 1

\* strconv.FormatInt(n, 10) for n >= 0
RECURSIVE FormatInt(_)
FormatInt(n) ==
    IF n < 10 THEN <<Digits[n + 1]>>
    ELSE Append(FormatInt(n \div 10), Digits[(n % 10) + 1])

\* strings.LastIndex on a one-character separator (1-based; 0 when absent)
LastIndex(s, sep) ==
    IF \E i \in 1..Len(s) : s[i] = sep
    THEN CHOOSE i \in 1..Len(s) : s[i] = sep /\ \A j \in (i + 1)..Len(s) : s[j] # sep
    ELSE 0

Min(a, b) == IF a < b THEN a ELSE b

(***************************************************************************)
(* Paths are sequences of segments; "/" is the empty sequence.             *)
(***************************************************************************)
\* path.Base: "/" for the root
Base(p) == IF p = <<>> THEN "/" ELSE p[Len(p)]

\* path.Dir
Dir(p) == IF p = <<>> THEN <<>> ELSE SubSeq(p, 1, Len(p) - 1)

(***************************************************************************)
(* Stream ciphers (encryption.NewCipher, FlowEnc).  A cipher is its key    *)
(* material (type, password, total file size) and its stream position.     *)
(* Bytes are two bits wide; the key stream is a fixed function of the key  *)
(* material and the absolute position, combined with the data by XOR.      *)
(***************************************************************************)
EncTypeAESCTR   == "aesctr"
EncTypeRC4MD5   == "rc4md5"
EncTypeChaCha20 == "chacha20"

registry == {EncTypeAESCTR, EncTypeRC4MD5, EncTypeChaCha20}

NoCipher == [ok |-> FALSE, encType |-> None, password |-> None,
             fileSize |-> 0, position |-> 0]

\* A registry lookup that falls back to AES-CTR for every unregistered type
NewCipherDefaulting(encType, password, fileSize) ==
    [ok |-> TRUE,
     encType |-> IF encType \in registry THEN encType ELSE EncTypeAESCTR,
     password |-> password, fileSize |-> fileSize, position |-> 0]

\* encryption.NewCipher: ok = FALSE is the "unsupported encryption type" error
NewCipher(encType, password, fileSize) ==
    IF encType \notin registry
    THEN IF encType = ""
         THEN [ok |-> TRUE, encType |-> EncTypeAESCTR, password |-> password,
               fileSize |-> fileSize, position |-> 0]
         ELSE NoCipher
    ELSE [ok |-> TRUE, encType |-> encType, password |-> password,
          fileSize |-> fileSize, position |-> 0]

\* encryption.NewFlowEnc: an empty type defaults to AES-CTR
NewFlowEnc(password, encType, fileSize) ==
    NewCipher(IF encType = "" THEN EncTypeAESCTR ELSE encType, password, fileSize)

\* FlowEnc.SetPosition
SetPosition(flowEnc, position) == [flowEnc EXCEPT !.position = position]

Passwords == {"pw1", "pw2"}

KeySeed(encType, password, fileSize) ==
    1 + (CASE encType = EncTypeAESCTR -> 0
           [] encType = EncTypeRC4MD5 -> 1
           [] OTHER -> 2)
      + 3 * (IF password = "pw1" THEN 0 ELSE 1)
      + 6 * (fileSize % 1009)

\* The key-stream byte at absolute position p.
KeystreamByte(flowEnc, p) ==
    ((KeySeed(flowEnc.encType, flowEnc.password, flowEnc.fileSize) * (p + 1)
      + p * p) % 251) % 4

\* XOR of two two-bit bytes
Xor(a, b) == (((a % 2) + (b % 2)) % 2) + 2 * (((a \div 2) + (b \div 2)) % 2)

(***************************************************************************)
(* The backend (Alist) and its answers.  A stored object is the cipher     *)
(* text of one plaintext version, encrypted for a key.                     *)
(***************************************************************************)
NoObject == [exists |-> FALSE, size |-> 0, ver |-> 0, key |-> NoCipher]

\* byte p of plaintext version ver
PlainByte(ver, p) == (ver * 7 + p * 3 + (p \div 5)) % 4

\* byte p of a stored object
StoredByte(obj, p) ==
    IF obj.key.ok THEN Xor(PlainByte(obj.ver, p), KeystreamByte(obj.key, p))
    ELSE PlainByte(obj.ver, p)

\* byte i of a page that is not file content (an error page, multipart framing)
OtherByte(i) == (i + 1) % 4

NoBody == [kind |-> "other", from |-> 0, len |-> 0]

\* byte i of an upstream response body
UpstreamByte(body, obj, i) ==
    IF body.kind = "file" THEN StoredByte(obj, body.from + i) ELSE OtherByte(i)

ErrorPageLen == 19      \* length of the backend's error page

MultipartOverhead == 120    \* framing bytes of a multipart/byteranges answer

NoResponse == [err |-> TRUE, StatusCode |-> 0, ContentLength |-> <<>>,
               ContentRange |-> <<>>, ContentType |-> "", Body |-> NoBody,
               readable |-> 0]

\* Sum of the lengths of a list of ranges
RECURSIVE RangesLength(_)
RangesLength(ranges) ==
    IF ranges = <<>> THEN 0
    ELSE ContentLength(ranges[1]) + RangesLength(Tail(ranges))

ContentRangeValue(start, end, total) ==
    <<"b", "y", "t", "e", "s", " ">> \o FormatInt(start) \o <<"-">>
        \o FormatInt(end) \o <<"/">> \o FormatInt(total)

UnsatisfiedRangeValue(total) ==
    <<"b", "y", "t", "e", "s", " ", "*", "/">> \o FormatInt(total)

WholeAnswer(obj) ==
    [err |-> FALSE, StatusCode |-> 200,
     ContentLength |-> FormatInt(obj.size), ContentRange |-> <<>>,
     ContentType |-> "application/octet-stream",
     Body |-> [kind |-> "file", from |-> 0, len |-> obj.size],
     readable |-> obj.size]

ErrorPageAnswer ==
    [err |-> FALSE, StatusCode |-> 404,
     ContentLength |-> FormatInt(ErrorPageLen), ContentRange |-> <<>>,
     ContentType |-> "text/html",
     Body |-> [kind |-> "other", from |-> 0, len |-> ErrorPageLen],
     readable |-> ErrorPageLen]

UnsatisfiableAnswer(obj) ==
    [err |-> FALSE, StatusCode |-> 416, ContentLength |-> <<"0">>,
     ContentRange |-> UnsatisfiedRangeValue(obj.size),
     ContentType |-> "", Body |-> NoBody, readable |-> 0]

PartAnswer(obj, range, length) ==
    [err |-> FALSE, StatusCode |-> 206, ContentLength |-> FormatInt(length),
     ContentRange |-> ContentRangeValue(range.Start, range.End, obj.size),
     ContentType |-> "application/octet-stream",
     Body |-> [kind |-> "file", from |-> range.Start, len |-> length],
     readable |-> length]

MultipartAnswer(length) ==
    [err |-> FALSE, StatusCode |-> 206, ContentLength |-> FormatInt(length),
     ContentRange |-> <<>>, ContentType |-> "multipart/byteranges",
     Body |-> [kind |-> "other", from |-> 0, len |-> length],
     readable |-> length]

\* The complete answers of the backend to a GET of obj whose Range header
\* it parsed as pr.
CompleteAnswers(obj, pr) ==
    IF ~obj.exists THEN {ErrorPageAnswer}
    ELSE IF pr.err # NoRangeError THEN {WholeAnswer(obj), UnsatisfiableAnswer(obj)}
    ELSE IF Len(pr.Ranges) = 0 THEN {WholeAnswer(obj)}
    ELSE IF Len(pr.Ranges) = 1
    THEN {PartAnswer(obj, pr.Ranges[1], ContentLength(pr.Ranges[1]))}
    ELSE {WholeAnswer(obj),
          MultipartAnswer(RangesLength(pr.Ranges) + MultipartOverhead)}

\* A body may break off after a prefix.
WithBrokenBodies(answers) ==
    answers \cup {[a EXCEPT !.readable = a.Body.len \div 2] : a \in answers}

\* What client.Do(req) can return for a GET of obj carrying rangeHeader:
\* a transport error, an error page, the whole object, the requested part,
\* a multipart answer or 416.
UpstreamAnswers(obj, rangeHeader) ==
    {NoResponse}
        \cup WithBrokenBodies(CompleteAnswers(obj, ParseRange(rangeHeader, obj.size)))

(***************************************************************************)
(* File names (encryption.EncodeName, DecodeName, FileNameConverter).      *)
(* Names are strings.  The keyed encoding with its check character is      *)
(* kept as an injective wrapping that only the same key opens.             *)
(***************************************************************************)
OrigPrefix == "orig_"

\* path.Ext of a name: the suffix from the last dot on
Ext(name) ==
    LET dots == {i \in 1..Len(name) : SubSeq(name, i, i) = "."}
    IN IF dots = {} THEN ""
       ELSE SubSeq(name, CHOOSE i \in dots : \A j \in dots : j <= i, Len(name))

\* strings.TrimSuffix for strings
TrimSuffix(name, suffix) ==
    IF Len(suffix) <= Len(name)
       /\ SubSeq(name, Len(name) - Len(suffix) + 1, Len(name)) = suffix
    THEN SubSeq(name, 1, Len(name) - Len(suffix))
    ELSE name

GetPasswdOutward(password, encType) == password \o "/" \o encType

\* strings.ReplaceAll for one-character old and new
RECURSIVE Replaced(_, _, _)
Replaced(s, old, new) ==
    IF s = "" THEN ""
    ELSE (IF SubSeq(s, 1, 1) = old THEN new ELSE SubSeq(s, 1, 1))
             \o Replaced(SubSeq(s, 2, Len(s)), old, new)

\* The encoded text is written in MixBase64's alphabet (sourceChars), which
\* has no "_": the wrapping writes "~" in its place.
EncodeName(password, encType, plainName) ==
    "{" \o GetPasswdOutward(password, encType) \o "}"
        \o Replaced(plainName, "_", "~")

\* "" when the name was not encoded under this key
DecodeName(password, encType, encodedName) ==
    LET opener == "{" \o GetPasswdOutward(password, encType) \o "}"
    IN IF Len(encodedName) < 2 THEN ""
       ELSE IF HasPrefix(encodedName, opener)
       THEN Replaced(SubSeq(encodedName, Len(opener) + 1, Len(encodedName)),
                     "~", "_")
       ELSE ""

\* encryption.IsOriginalFile
IsOriginalFile(fileName) == HasPrefix(fileName, OrigPrefix)

\* encryption.StripOriginalPrefix
StripOriginalPrefix(fileName) == TrimPrefix(fileName, OrigPrefix)

\* encryption.ConvertRealNameWithSuffix on a file name
ConvertRealNameWithSuffix(password, encType, fileName, encSuffix) ==
    IF HasPrefix(fileName, OrigPrefix) THEN TrimPrefix(fileName, OrigPrefix)
    ELSE LET ext == IF encSuffix # "" THEN encSuffix ELSE Ext(fileName)
             baseName == TrimSuffix(fileName, Ext(fileName))
         IN EncodeName(password, encType, baseName) \o ext

\* encryption.ConvertShowName on a file name
ConvertShowName(password, encType, fileName) ==
    LET showName == DecodeName(password, encType,
                               TrimSuffix(fileName, Ext(fileName)))
    IN IF showName = "" THEN OrigPrefix \o fileName ELSE showName

\* FileNameConverter.ToRealName
ToRealName(passwdInfo, fileName) ==
    ConvertRealNameWithSuffix(passwdInfo.Password, passwdInfo.EncType, fileName,
                              passwdInfo.EncSuffix)

(***************************************************************************)
(* Encryption rules (config.PasswdInfo, dao.PasswdDAO)                     *)
(***************************************************************************)
NoPasswdInfo == [Password |-> None, EncType |-> None, EncName |-> FALSE,
                 EncSuffix |-> "", Enable |-> FALSE, EncPath |-> {}]

\* encryption.PathExec: a pattern is kept as the directory it anchors
PathExec(encPaths, urlPath) ==
    \E pattern \in encPaths : HasPrefix(urlPath, pattern)

\* PasswdDAO.findByPathInternal: the first enabled rule whose pattern matches
FindByPath(passwdList, urlPath) ==
    LET matching == {i \in 1..Len(passwdList) :
                        /\ passwdList[i].Enable
                        /\ PathExec(passwdList[i].EncPath, urlPath)}
    IN IF matching = {} THEN NoPasswdInfo
       ELSE passwdList[CHOOSE i \in matching : \A j \in matching : i <= j]

\* The rules of the model: stream encryption only, with file names, and a
\* rule whose encryption type no cipher is registered for.
PasswdList ==
    << [Password |-> "pw1", EncType |-> EncTypeAESCTR, EncName |-> FALSE,
        EncSuffix |-> "", Enable |-> TRUE, EncPath |-> {<<"enc">>}],
       [Password |-> "pw2", EncType |-> "", EncName |-> TRUE,
        EncSuffix |-> "", Enable |-> TRUE, EncPath |-> {<<"encn">>}],
       [Password |-> "pw1", EncType |-> "invalid", EncName |-> FALSE,
        EncSuffix |-> "", Enable |-> TRUE, EncPath |-> {<<"bad">>}] >>

(***************************************************************************)
(* The rule resolver (dao.PasswdDAO): the cached lookup, the lookup with   *)
(* folder passwords, and the configuration being saved.                    *)
(***************************************************************************)
\* url.QueryUnescape on a folder name: "+" stands for a space (no name of the
\* model carries a % escape).
QueryUnescape(s) == Replaced(s, "+", " ")

\* encryption.EncodeFolderName
EncodeFolderName(password, encType, folderPasswd, folderEncType) ==
    EncodeName(password, encType, folderEncType \o "_" \o folderPasswd)

NoFolderPasswd == [ok |-> FALSE, folderEncType |-> "", folderPasswd |-> ""]

\* the positions of "_" in a name
Underscores(s) == {i \in 1..Len(s) : SubSeq(s, i, i) = "_"}

\* DecodeFolderName, from strings.Index on: the decoded text is split at its
\* first "_".
FolderPasswdOf(decoded, seps) ==
    IF seps = {} THEN NoFolderPasswd
    ELSE LET idx == CHOOSE i \in seps : \A j \in seps : i <= j
         IN [ok |-> TRUE, folderEncType |-> SubSeq(decoded, 1, idx - 1),
             folderPasswd |-> SubSeq(decoded, idx + 1, Len(decoded))]

\* DecodeFolderName, after the split: the last piece is decoded.
DecodedFolderName(password, encType, encodedName, seps) ==
    IF seps = {} THEN NoFolderPasswd
    ELSE LET last == CHOOSE i \in seps : \A j \in seps : j <= i
             decoded == DecodeName(password, encType,
                                   SubSeq(encodedName, last + 1, Len(encodedName)))
         IN IF decoded = "" THEN NoFolderPasswd
            ELSE FolderPasswdOf(decoded, Underscores(decoded))

\* encryption.DecodeFolderName
DecodeFolderName(password, encType, encodedName) ==
    DecodedFolderName(password, encType, encodedName, Underscores(encodedName))

\* PathFindPasswd's loop over the folders of the path: the first non-empty
\* segment that decodes under the rule's key.
RECURSIVE FolderOverride(_, _, _)
FolderOverride(passwdInfo, folders, i) ==
    IF i > Len(folders) THEN NoFolderPasswd
    ELSE IF folders[i] = "" THEN FolderOverride(passwdInfo, folders, i + 1)
    ELSE LET decodedFolder == DecodeFolderName(passwdInfo.Password, passwdInfo.EncType,
                                               QueryUnescape(folders[i]))
         IN IF decodedFolder.ok THEN decodedFolder
            ELSE FolderOverride(passwdInfo, folders, i + 1)

\* newPasswdInfo: the copy of the rule, with the folder's password when one
\* was decoded.
WithFolderPasswd(passwdInfo, override) ==
    IF override.ok
    THEN [passwdInfo EXCEPT !.EncType = override.folderEncType,
                            !.Password = override.folderPasswd]
    ELSE passwdInfo

\* The index of the first enabled rule with a matching pattern, 0 without one.
FirstMatch(passwdList, urlPath) ==
    LET matching == {i \in 1..Len(passwdList) :
                        /\ passwdList[i].Enable
                        /\ PathExec(passwdList[i].EncPath, urlPath)}
    IN IF matching = {} THEN 0
       ELSE CHOOSE i \in matching : \A j \in matching : i <= j

\* Mutation of PathFindPasswd: the folder's password is written into the
\* rule of the list instead of into a copy.
PathFindPasswdInPlace(passwdList, urlPath) ==
    LET i == FirstMatch(passwdList, urlPath) IN
    IF i = 0 THEN [found |-> FALSE, rule |-> NoPasswdInfo, list |-> passwdList]
    ELSE LET newPasswdInfo == WithFolderPasswd(passwdList[i],
                                               FolderOverride(passwdList[i], urlPath, 1))
         IN [found |-> TRUE, rule |-> newPasswdInfo,
             list |-> [passwdList EXCEPT ![i] = newPasswdInfo]]

\* PasswdDAO.PathFindPasswd: what it returns, and the rule list after it.
PathFindPasswd(passwdList, urlPath) ==
    LET i == FirstMatch(passwdList, urlPath) IN
    IF i = 0 THEN [found |-> FALSE, rule |-> NoPasswdInfo, list |-> passwdList]
    ELSE [found |-> TRUE,
          rule |-> WithFolderPasswd(passwdList[i],
                                    FolderOverride(passwdList[i], urlPath, 1)),
          list |-> passwdList]

PasswdCacheTTL == 5        \* NewPasswdDAO: storage.NewCache(5 * time.Minute)
ResolverClockStep == 3     \* bound: the clock advances three minutes at a time
MaxResolverClock == 6      \* bound: the latest time modelled

\* A cached lookup result; Value.found FALSE is the cached nil.
NoItem == [present |-> FALSE, Value |-> [found |-> FALSE, rule |-> NoPasswdInfo],
           Expiration |-> 0]

\* storage.Cache.Get: an item that is there and has not expired
CacheGet(cache, key, now) ==
    IF key \notin DOMAIN cache THEN NoItem
    ELSE IF cache[key].Expiration > 0 /\ now > cache[key].Expiration THEN NoItem
    ELSE cache[key]

\* storage.Cache.Set: the item is stored with the cache's TTL
CacheSet(cache, key, value, now) ==
    [k \in DOMAIN cache \cup {key} |->
        IF k = key
        THEN [present |-> TRUE, Value |-> value, Expiration |-> now + PasswdCacheTTL]
        ELSE cache[k]]

\* storage.Cache.cleanup: the expired items are deleted
CacheCleanup(cache, now) ==
    [k \in {c \in DOMAIN cache : ~(cache[c].Expiration > 0 /\ now > cache[c].Expiration)}
        |-> cache[k]]

\* PasswdDAO.FindByPath after a cache miss: the scan, and its result cached.
FindByPathScanned(cache, passwdList, urlPath, now, i) ==
    LET value == IF i = 0 THEN [found |-> FALSE, rule |-> NoPasswdInfo]
                 ELSE [found |-> TRUE, rule |-> passwdList[i]]
    IN [found |-> value.found, rule |-> value.rule, hit |-> FALSE,
        cache |-> CacheSet(cache, urlPath, value, now)]

\* PasswdDAO.FindByPath with its cache.  A cached rule is the pointer to the
\* element of the list it was found in: SaveAlistConfig builds a new list, so
\* the pointer keeps showing the rule as it was.
FindByPathCached(cache, passwdList, urlPath, now, cached) ==
    IF cached.present
    THEN [found |-> cached.Value.found, rule |-> cached.Value.rule, hit |-> TRUE,
          cache |-> cache]
    ELSE FindByPathScanned(cache, passwdList, urlPath, now,
                           FirstMatch(passwdList, urlPath))

\* Config.UpdateAlistServer as SaveAlistConfig calls it: the server entry, and
\* with it the rule list, is replaced by the one that was posted.
UpdateAlistServer(passwdList, server) == server

\* The two rules of the resolver's model; both match /enc, the second also
\* /encn.
RuleA == PasswdList[1]

RuleB == [PasswdList[2] EXCEPT !.EncPath = {<<"enc">>, <<"encn">>}]

Disabled(passwdInfo) == [passwdInfo EXCEPT !.Enable = FALSE]

\* The lists an administrator saves: each rule present or not, enabled or
\* not, in either order.
RuleLists ==
    LET as == {RuleA, Disabled(RuleA)}
        bs == {RuleB, Disabled(RuleB)}
    IN {<<>>} \cup {<<a>> : a \in as} \cup {<<b>> : b \in bs}
              \cup {<<a, b>> : a \in as, b \in bs}
              \cup {<<b, a>> : a \in as, b \in bs}

\* A folder whose name carries a password of its own under RuleA's key.
FolderWithPasswd ==
    "dir_" \o EncodeFolderName(RuleA.Password, RuleA.EncType, "pw3", EncTypeRC4MD5)

ResolverPaths ==
    {<<"enc", "a.bin">>, <<"encn", "a.bin">>, <<"enc", FolderWithPasswd, "a.bin">>}

\* No segment of the path can carry a folder password.
NoFolderSegment(urlPath) ==
    \A i \in 1..Len(urlPath) : Underscores(urlPath[i]) = {}

NoLookup == [op |-> None, path |-> <<>>, found |-> FALSE, rule |-> NoPasswdInfo,
             hit |-> FALSE]

(***************************************************************************)
(* http.ResponseWriter: what has reached the client.  The body is len      *)
(* bytes of the upstream body src put through the cipher key (as they      *)
(* are when key.ok is false), then textLen bytes of error text.            *)
(***************************************************************************)
NewWriter == [wroteHeader |-> FALSE, status |-> 0, contentLength |-> -1,
              contentRange |-> <<>>, len |-> 0, src |-> NoBody,
              key |-> NoCipher, textLen |-> 0]

\* Header().Set of Content-Length / Content-Range followed by WriteHeader;
\* a second WriteHeader is ignored.
WriteHeader(w, code, contentLength, contentRange) ==
    IF w.wroteHeader THEN w
    ELSE [w EXCEPT !.wroteHeader = TRUE, !.status = code,
                   !.contentLength = contentLength,
                   !.contentRange = contentRange]

\* RespondHTTPErrorWithStatus = http.Error: WriteHeader(code), then the text
\* as body; a write beyond the declared Content-Length is refused.
RespondHTTPErrorWithStatus(w, textLen, code, connAlive) ==
    LET h == WriteHeader(w, code, -1, <<>>)
    IN IF ~connAlive THEN h
       ELSE IF h.contentLength # -1 /\ h.len + h.textLen + textLen > h.contentLength
       THEN h
       ELSE [h EXCEPT !.textLen = @ + textLen]

ProxyErrorText == 12        \* len("Proxy error\n")

DecryptionErrorText == 17   \* len("Decryption error\n")

NotFoundText == 34          \* len("Redirect key not found or expired\n")

MissingKeyText == 12        \* len("Missing key\n")

streamBufferSize == 524288

\* byte i of the body the client received
ClientByte(w, obj, i) ==
    IF w.key.ok
    THEN Xor(UpstreamByte(w.src, obj, i), KeystreamByte(w.key, w.key.position + i))
    ELSE UpstreamByte(w.src, obj, i)

\* io.CopyBuffer(w, reader, buf): reads up to limit bytes (limit < 0: all) of
\* the readable part of src and writes them in chunks.
CopyBuffer(w, src, key, readable, limit, r) ==
    LET limited == limit >= 0 /\ limit <= readable
        toRead  == IF limited THEN limit ELSE readable
        readErr == readable < src.len /\ ~limited
        cl      == w.contentLength
        capCL   == IF cl < 0 \/ toRead <= cl THEN toRead
                   ELSE (cl \div r.chunk) * r.chunk
        capConn == IF r.clientReads < 0 THEN toRead ELSE Min(toRead, r.clientReads)
        n       == Min(capCL, capConn)
    IN [err |-> IF n < toRead THEN "write" ELSE IF readErr THEN "read" ELSE None,
        connAlive |-> r.clientReads < 0 \/ toRead <= r.clientReads,
        w |-> [w EXCEPT !.len = n, !.src = src, !.key = key]]

(***************************************************************************)
(* proxy.StreamProxy                                                       *)
(***************************************************************************)
\* resolveFileSize, priority 3: Content-Length
SizeFromContentLength(resp, size) ==
    IF resp.ContentLength # <<>> /\ size.ok /\ size.value > 0 THEN size.value
    ELSE 0

\* resolveFileSize, priority 2: the total of a 206's Content-Range
SizeFromContentRange(resp, idx) ==
    LET total == ParseInt(SubSeq(resp.ContentRange, idx + 1, Len(resp.ContentRange)))
    IN IF resp.StatusCode = 206 /\ resp.ContentRange # <<>> /\ idx >= 1
          /\ total.ok /\ total.value > 0
       THEN total.value
       ELSE SizeFromContentLength(resp, ParseInt(resp.ContentLength))

\* resolveFileSize
resolveFileSize(cachedSize, resp) ==
    IF cachedSize > 0 THEN cachedSize
    ELSE SizeFromContentRange(resp, LastIndex(resp.ContentRange, "/"))

Outcome4(err, w, flowEnc, fetched, connAlive) ==
    [err |-> err, w |-> w, flowEnc |-> flowEnc, fetched |-> fetched,
     connAlive |-> connAlive]

Streamed(copied, flowEnc) ==
    Outcome4(copied.err, copied.w, flowEnc, TRUE, copied.connAlive)

\* ProxyDownloadDecrypt, the 206 branch: position, headers, limited copy
StreamRange(w, r, resp, flowEnc, requestedRange, fileSize) ==
    Streamed(CopyBuffer(WriteHeader(w, 206, ContentLength(requestedRange),
                                    ContentRangeValue(requestedRange.Start,
                                                      requestedRange.End,
                                                      fileSize)),
                        resp.Body,
                        SetPosition(flowEnc, requestedRange.Start),
                        resp.readable, ContentLength(requestedRange), r),
             SetPosition(flowEnc, requestedRange.Start))

\* ProxyDownloadDecrypt, the 200 branch
StreamFull(w, r, resp, flowEnc, fileSize) ==
    Streamed(CopyBuffer(WriteHeader(w, 200, fileSize, <<>>), resp.Body, flowEnc,
                        resp.readable, -1, r),
             flowEnc)

\* ProxyDownloadDecrypt from the cipher on: the cipher is made before the
\* Range header is looked at.
DecryptStream(w, r, resp, flowEnc, rangeReq, fileSize) ==
    IF ~flowEnc.ok
    THEN Outcome4("failed to create cipher", w, NoCipher, TRUE, TRUE)
    ELSE IF rangeReq.err # NoRangeError
    THEN Outcome4(None, WriteHeader(w, 416, -1, UnsatisfiedRangeValue(fileSize)),
                  flowEnc, TRUE, TRUE)
    ELSE IF Len(rangeReq.Ranges) = 1
    THEN StreamRange(w, r, resp, flowEnc, rangeReq.Ranges[1], fileSize)
    ELSE StreamFull(w, r, resp, flowEnc, fileSize)

DecryptWithSize(w, r, resp, passwdInfo, fileSize) ==
    DecryptStream(w, r, resp,
                  NewFlowEnc(passwdInfo.Password, passwdInfo.EncType, fileSize),
                  ParseRange(r.Range, fileSize), fileSize)

\* StreamProxy.ProxyDownloadDecrypt
ProxyDownloadDecrypt(w, r, resp, passwdInfo, cachedSize) ==
    IF ~r.urlOK
    THEN Outcome4("failed to create request", w, NoCipher, FALSE, TRUE)
    ELSE IF resp.err
    THEN Outcome4("failed to fetch", w, NoCipher, TRUE, TRUE)
    ELSE DecryptWithSize(w, r, resp, passwdInfo, resolveFileSize(cachedSize, resp))

CopyThrough(w, r, resp, size) ==
    Streamed(CopyBuffer(WriteHeader(w, resp.StatusCode,
                                    IF size.ok THEN size.value ELSE -1,
                                    resp.ContentRange),
                        resp.Body, NoCipher, resp.readable, -1, r),
             NoCipher)

\* StreamProxy.ProxyRequest: the upstream answer copied through unchanged
ProxyRequest(w, r, resp) ==
    IF ~r.urlOK
    THEN Outcome4("failed to create request", w, NoCipher, FALSE, TRUE)
    ELSE IF resp.err
    THEN Outcome4("failed to proxy request", w, NoCipher, TRUE, TRUE)
    ELSE CopyThrough(w, r, resp, ParseInt(resp.ContentLength))

(***************************************************************************)
(* handler.ProxyHandler.HandleDownload                                     *)
(***************************************************************************)
NoFileInfo == [found |-> FALSE, Size |-> 0]

NoRequest == [Range |-> <<>>, urlOK |-> TRUE, chunk |-> streamBufferSize,
              clientReads |-> -1]

NoOutcome == Outcome4(None, NewWriter, NoCipher, FALSE, TRUE)

NoExchange == [handler |-> None, path |-> <<>>, r |-> NoRequest,
               resp |-> NoResponse, obj |-> NoObject,
               passwdInfo |-> NoPasswdInfo, cachedSize |-> 0,
               out |-> NoOutcome, final |-> NewWriter]

\* ProxyHandler.convertDisplayToRealPath
convertDisplayToRealPath(displayPath, passwdInfo) ==
    IF ~passwdInfo.Enable \/ ~passwdInfo.EncName THEN displayPath
    ELSE IF IsOriginalFile(Base(displayPath))
    THEN Append(Dir(displayPath), StripOriginalPrefix(Base(displayPath)))
    ELSE Append(Dir(displayPath), ToRealName(passwdInfo, Base(displayPath)))

\* The path HandleDownload asks the backend for
DownloadTarget(passwdList, displayPath) ==
    convertDisplayToRealPath(displayPath, FindByPath(passwdList, displayPath))

\* The handler's error branch: RespondHTTPErrorWithStatus(w, text, 502)
Answered(handler, displayPath, r, resp, obj, passwdInfo, cachedSize, out, textLen) ==
    [handler |-> handler, path |-> displayPath, r |-> r,
     resp |-> IF out.fetched THEN resp ELSE NoResponse,
     obj |-> obj, passwdInfo |-> passwdInfo, cachedSize |-> cachedSize,
     out |-> out,
     final |-> IF out.err = None THEN out.w
               ELSE RespondHTTPErrorWithStatus(out.w, textLen, 502, out.connAlive)]

DownloadWithRule(fileInfo, displayPath, r, obj, resp, passwdInfo) ==
    IF ~passwdInfo.Enable
    THEN Answered("HandleDownload", displayPath, r, resp, obj, passwdInfo, 0,
                  ProxyRequest(NewWriter, r, resp), ProxyErrorText)
    ELSE Answered("HandleDownload", displayPath, r, resp, obj, passwdInfo,
                  fileInfo.Size,
                  ProxyDownloadDecrypt(NewWriter, r, resp, passwdInfo, fileInfo.Size),
                  DecryptionErrorText)

\* HandleDownload, given the backend's answer for its target
HandleDownload(passwdList, fileDAO, displayPath, r, obj, resp) ==
    DownloadWithRule(IF fileDAO[displayPath].found THEN fileDAO[displayPath]
                     ELSE [found |-> FALSE, Size |-> 0],
                     displayPath, r, obj, resp,
                     FindByPath(passwdList, displayPath))

DownloadPaths == {<<"enc", "a.bin">>, <<"encn", "a.bin">>,
                  <<"bad", "a.bin">>, <<"plain", "a.bin">>}

DownloadSizes == {0, 100, 2000}

StreamChunks == {streamBufferSize, 64}

\* -1: the client reads the whole response; else it hangs up after that many bytes
ClientReads == {-1, 10}

Requests == [Range : RangeHeaders, urlOK : BOOLEAN, chunk : StreamChunks,
             clientReads : ClientReads]

(***************************************************************************)
(* The upstream request of a download and the two revisions of             *)
(* StreamProxy.ProxyDownloadDecrypt held by the tree: proxy/stream.go      *)
(* copies the upstream response headers to the client, the other           *)
(* (ProxyDownloadDecrypt above) writes its own.  Headers are kept by       *)
(* name.                                                                   *)
(***************************************************************************)
\* RequestBuilder.CopyHeaders: every header of the source request whose
\* name is not marked in skipHeaders
CopyHeaders(headers, skipHeaders) == headers \ skipHeaders

\* The names WebDAVHandler.executeHEADRequest leaves out of its HEAD probe
ProbeSkipped == {"Host", "Content-Length", "Content-Type", "Accept-Encoding"}

\* ProxyDownloadDecrypt: httputil.NewRequest("GET", targetURL).CopyHeaders(r)
DownloadRequestHeaders(headers) == CopyHeaders(headers, {})

\* proxy/stream.go ProxyDownloadDecrypt: req.Header.Add for every header of r
CopiedRequestHeaders(headers) == headers

\* proxy/stream.go parseRangeStart
parseRangeStart(rangeHeader) ==
    IF ~HasPrefix(rangeHeader, BytesPrefix) THEN 0
    ELSE LET start == ParseInt(Split(TrimPrefix(rangeHeader, BytesPrefix), "-")[1])
         IN IF start.ok THEN start.value ELSE 0

\* proxy/stream.go: the size taken from the response when none was passed
SizeFromResponse(fileSize, resp, idx) ==
    LET cl    == ParseInt(resp.ContentLength)
        total == ParseInt(SubSeq(resp.ContentRange, idx + 1, Len(resp.ContentRange)))
    IN IF fileSize # 0 THEN fileSize
       ELSE IF resp.StatusCode = 206 /\ resp.ContentRange # <<>> /\ idx >= 1
               /\ total.ok /\ total.value > 0
       THEN total.value
       ELSE IF resp.ContentLength # <<>> /\ cl.ok THEN cl.value
       ELSE 0

\* proxy/stream.go: the response headers are copied, then WriteHeader with
\* the upstream status, then the decrypted body
ForwardDecrypted(w, r, resp, flowEnc, size) ==
    Streamed(CopyBuffer(WriteHeader(w, resp.StatusCode,
                                    IF size.ok THEN size.value ELSE -1,
                                    resp.ContentRange),
                        resp.Body, flowEnc, resp.readable, -1, r),
             flowEnc)

DecryptCopying(w, r, resp, flowEnc, startPos) ==
    IF ~flowEnc.ok
    THEN Outcome4("failed to create cipher", w, NoCipher, TRUE, TRUE)
    ELSE ForwardDecrypted(w, r, resp,
                          IF startPos > 0 THEN SetPosition(flowEnc, startPos)
                          ELSE flowEnc,
                          ParseInt(resp.ContentLength))

\* proxy/stream.go StreamProxy.ProxyDownloadDecrypt
ProxyDownloadDecryptCopying(w, r, resp, passwdInfo, fileSize) ==
    IF ~r.urlOK
    THEN Outcome4("failed to create request", w, NoCipher, FALSE, TRUE)
    ELSE IF resp.err
    THEN Outcome4("failed to fetch", w, NoCipher, TRUE, TRUE)
    ELSE DecryptCopying(w, r, resp,
                        NewFlowEnc(passwdInfo.Password, passwdInfo.EncType,
                                   SizeFromResponse(fileSize, resp,
                                                    LastIndex(resp.ContentRange, "/"))),
                        parseRangeStart(r.Range))

\* HandleDownload on a rule-matched path, built with proxy/stream.go
HandleDownloadCopying(passwdList, fileDAO, displayPath, r, obj, resp) ==
    Answered("HandleDownload", displayPath, r, resp, obj,
             FindByPath(passwdList, displayPath), fileDAO[displayPath].Size,
             ProxyDownloadDecryptCopying(NewWriter, r, resp,
                                         FindByPath(passwdList, displayPath),
                                         fileDAO[displayPath].Size),
             DecryptionErrorText)

\* The download paths a rule matches
FetchPaths == {p \in DownloadPaths : FindByPath(PasswdList, p).Enable}

\* Header names a client may send besides Range
ClientHeaders == SUBSET {"Accept-Encoding", "Content-Type", "Authorization"}

FetchRequests == {r \in Requests : r.chunk = streamBufferSize /\ r.clientReads = -1}

\* r.Header: Range is there when the request has one
HeaderNames(r, headers) == IF r.Range = <<>> THEN headers ELSE headers \cup {"Range"}

NoFetch == [revision |-> None, headers |-> {}, sent |-> {}, x |-> NoExchange]

\* A download with the header names the client sent and the ones the
\* upstream request carried
Fetched(revision, headers, sent, x) ==
    [revision |-> revision, headers |-> headers,
     sent |-> IF x.out.fetched THEN sent ELSE {}, x |-> x]


\* The object the backend holds for a display path written through rule
\* passwdInfo: the cipher text under the rule's key, or the plain bytes.
StoredFor(passwdInfo, size, ver) ==
    [exists |-> TRUE, size |-> size, ver |-> ver,
     key |-> IF passwdInfo.Enable
             THEN NewFlowEnc(passwdInfo.Password, passwdInfo.EncType, size)
             ELSE NoCipher]


(***************************************************************************)
(* Redirect registry (handler/proxy.go).  An instant of the clock stands   *)
(* for the five minutes up to it; the sweep due at an instant runs at its  *)
(* end, so requests of that instant may come before it.                    *)
(***************************************************************************)
RedirectTTL == 60       \* ExpiresAt: time.Now().Add(1 * time.Hour)

SweepInterval == 5      \* time.NewTicker(5 * time.Minute)

\* The cap on registered keys; 10000 in the code, lowered so that the
\* eviction loop of RegisterRedirect runs.
maxRedirectEntries == 2

MaxRegistrations == 3   \* RegisterRedirect calls in one behaviour

MaxRedirectClock == 70  \* the last instant of the clock

NoRedirect == [URL |-> None, FileSize |-> 0, Password |-> None,
               EncType |-> None, ExpiresAt |-> 0]

\* hex(md5(url:fileSize:UnixNano)), kept as the triple it digests
RedirectKey(url, fileSize, nano) == <<url, fileSize, nano>>

MissingKey == <<>>

UnknownKey == <<"https://cdn/none", 0, 0>>

\* sync.Map.Load: NoRedirect when the key is absent
Load(map, key) == IF key \in DOMAIN map THEN map[key] ELSE NoRedirect

\* sync.Map.Store
Store(map, key, info) ==
    [k \in DOMAIN map \cup {key} |-> IF k = key THEN info ELSE map[k]]

\* sync.Map.Delete
Delete(map, key) == [k \in DOMAIN map \ {key} |-> map[k]]

\* A sweep that takes an entry one interval before it expires
SweepEarly(map, now) ==
    [k \in {j \in DOMAIN map : ~(now + SweepInterval >= map[j].ExpiresAt)} |-> map[k]]

\* cleanupRedirects, one tick: every entry with now.After(ExpiresAt) goes
Sweep(map, now) == [k \in {j \in DOMAIN map : ~(now > map[j].ExpiresAt)} |-> map[k]]

\* An eviction loop that shortens the list and leaves the map alone
RECURSIVE EvictListOnly(_, _)
EvictListOnly(map, keys) ==
    IF Len(keys) > maxRedirectEntries
    THEN EvictListOnly(map, Tail(keys))
    ELSE [map |-> map, keys |-> keys]

\* RegisterRedirect, the eviction loop: while more than maxRedirectEntries
\* keys are listed, the oldest is dropped from the list and from the map.
RECURSIVE Evict(_, _)
Evict(map, keys) ==
    IF Len(keys) > maxRedirectEntries
    THEN Evict(Delete(map, keys[1]), Tail(keys))
    ELSE [map |-> map, keys |-> keys]

\* RegisterRedirect before the lock: the entry is stored under its key
StoreRedirect(map, url, fileSize, password, encType, now, nano) ==
    Store(map, RedirectKey(url, fileSize, nano),
          [URL |-> url, FileSize |-> fileSize, Password |-> password,
           EncType |-> encType, ExpiresAt |-> now + RedirectTTL])

\* RegisterRedirect under keysMu: the key is listed, then the eviction loop
ListRedirect(map, keys, key) == Evict(map, Append(keys, key))

\* RegisterRedirect run without interruption: [map, keys]
RegisterRedirect(map, keys, url, fileSize, password, encType, now, nano) ==
    ListRedirect(StoreRedirect(map, url, fileSize, password, encType, now, nano),
                 keys, RedirectKey(url, fileSize, nano))

RedirectURLs == {"https://cdn/a"}

\* What the model's raw URLs hold: a file stored under the first rule.
RedirectObject(url) == StoredFor(PasswdList[1], 100, 1)

RedirectSizes == {100}

\* The rules whose files /api/fs/get registers, by their place in the list
RedirectRules == {1, 2}

RedirectRequests == [Range : {HdrNone, HdrBounded}, urlOK : {TRUE},
                     chunk : {streamBufferSize}, clientReads : {-1}]

\* The keys a client can ask for: every key that can be issued, the empty
\* key and one that is never issued.
RedirectKeys ==
    {RedirectKey(url, fileSize, nano) :
        url \in RedirectURLs, fileSize \in RedirectSizes, nano \in 1..MaxRegistrations}
        \cup {MissingKey, UnknownKey}

NoRedirectExchange == [key |-> MissingKey, info |-> NoRedirect, at |-> 0,
                       x |-> NoExchange]

RefusedExchange(r, code, textLen) ==
    [NoExchange EXCEPT !.handler = "HandleRedirect", !.r = r,
                       !.final = RespondHTTPErrorWithStatus(NewWriter, textLen,
                                                            code, TRUE)]

RedirectPasswdInfo(info) ==
    [Password |-> info.Password, EncType |-> info.EncType, EncName |-> FALSE,
     EncSuffix |-> "", Enable |-> TRUE, EncPath |-> {}]

\* HandleRedirect for an entry the map holds, given the upstream answer
ServeRedirect(info, r, obj, resp) ==
    Answered("HandleRedirect", <<"redirect">>, r, resp, obj,
             RedirectPasswdInfo(info), info.FileSize,
             ProxyDownloadDecrypt(NewWriter, r, resp, RedirectPasswdInfo(info),
                                  info.FileSize),
             ProxyErrorText)

\* HandleRedirect: the set of exchanges it can end in
HandleRedirect(map, key, r) ==
    IF key = MissingKey THEN {RefusedExchange(r, 400, MissingKeyText)}
    ELSE IF key \notin DOMAIN map THEN {RefusedExchange(r, 404, NotFoundText)}
    ELSE {ServeRedirect(map[key], r, RedirectObject(map[key].URL), resp) :
              resp \in UpstreamAnswers(RedirectObject(map[key].URL), r.Range)}

(***************************************************************************)
(* Learned-strategy memo                                                   *)
(***************************************************************************)
StrategyFileInfoCache == "file_info_cache"
StrategyFileSizeCache == "file_size_cache"
StrategyHEADRequest   == "head_request"

\* The strategies the fallback chain can report.
StrategyTypes == {StrategyFileInfoCache, StrategyFileSizeCache, StrategyHEADRequest}

Dirs == {"/enc"}
Reqs == {"r1", "r2"}

\* The absence of a map entry.
NoEntry == [Strategy |-> None, SuccessCount |-> 0, FailCount |-> 0,
            LastSuccess |-> 0, LastUpdate |-> 0]

StrategyTTL == 60          \* PathStrategy.TTL, one hour
ReliableSuccesses == 3     \* GetStrategy's threshold
InvalidatingFailures == 3  \* RecordFailure's threshold
DefaultMaxEntries == 1000  \* NewStrategyCache's default capacity

ClockStep == 30            \* the clock advances half an hour at a time
MaxClock == 90             \* bound: the latest time modelled
MaxHistory == 6            \* bound: outcomes recorded per directory
MaxSuccessCount == 4       \* bound: SuccessCount is not driven beyond this

\* GetStrategy: the entry, when it exists, has not expired and counts at least
\* three successes; NoEntry otherwise.
GetStrategy(entries, dirPath, now) ==
    LET strategy == entries[dirPath] IN
    IF strategy = NoEntry THEN NoEntry
    ELSE IF now - strategy.LastSuccess > StrategyTTL THEN NoEntry
    ELSE IF strategy.SuccessCount < ReliableSuccesses THEN NoEntry
    ELSE strategy

\* evictOldest: the entries with the least LastUpdate (map order picks one).
OldestDirs(entries) ==
    {d \in DOMAIN entries :
        /\ entries[d] # NoEntry
        /\ \A e \in DOMAIN entries :
              entries[e] # NoEntry => entries[d].LastUpdate <= entries[e].LastUpdate}

\* Mutation of RecordSuccessEntry: a success of another strategy keeps the count.
RecordSuccessEntryKeepCount(strategy, strategyType, now) ==
    IF strategy = NoEntry
    THEN [Strategy |-> strategyType, SuccessCount |-> 1, FailCount |-> 0,
          LastSuccess |-> now, LastUpdate |-> now]
    ELSE [strategy EXCEPT !.Strategy = strategyType, !.SuccessCount = @ + 1,
                          !.FailCount = 0, !.LastSuccess = now, !.LastUpdate = now]

\* RecordSuccess on one entry: create it, count a success of the same strategy,
\* or restart the count for another strategy.
RecordSuccessEntry(strategy, strategyType, now) ==
    IF strategy = NoEntry
    THEN [Strategy |-> strategyType, SuccessCount |-> 1, FailCount |-> 0,
          LastSuccess |-> now, LastUpdate |-> now]
    ELSE IF strategy.Strategy = strategyType
    THEN [strategy EXCEPT !.SuccessCount = @ + 1, !.FailCount = 0,
                          !.LastSuccess = now, !.LastUpdate = now]
    ELSE [strategy EXCEPT !.Strategy = strategyType, !.SuccessCount = 1,
                          !.FailCount = 0, !.LastSuccess = now, !.LastUpdate = now]

\* RecordSuccess: the memo after the call, as a set of possible results (the
\* eviction of the oldest entry picks among equally old ones).
RecordSuccess(entries, dirPath, strategyType, now) ==
    LET stored == [entries EXCEPT ![dirPath] =
                       RecordSuccessEntry(entries[dirPath], strategyType, now)]
        count  == Cardinality({d \in DOMAIN stored : stored[d] # NoEntry})
    IN IF entries[dirPath] = NoEntry /\ count > DefaultMaxEntries
       THEN {[stored EXCEPT ![victim] = NoEntry] : victim \in OldestDirs(stored)}
       ELSE {stored}

\* RecordFailure that lets the third failure stand and deletes on the fourth
RecordFailureLate(entries, dirPath, strategyType, now) ==
    LET strategy == entries[dirPath] IN
    IF strategy = NoEntry THEN entries
    ELSE IF strategy.Strategy # strategyType THEN entries
    ELSE IF strategy.FailCount + 1 > InvalidatingFailures
    THEN [entries EXCEPT ![dirPath] = NoEntry]
    ELSE [entries EXCEPT ![dirPath] =
             [strategy EXCEPT !.FailCount = @ + 1, !.LastUpdate = now]]

\* RecordFailure: a failure of the stored strategy is counted and the third one
\* deletes the entry; anything else changes nothing.
RecordFailure(entries, dirPath, strategyType, now) ==
    LET strategy == entries[dirPath] IN
    IF strategy = NoEntry THEN entries
    ELSE IF strategy.Strategy # strategyType THEN entries
    ELSE IF strategy.FailCount + 1 >= InvalidatingFailures
    THEN [entries EXCEPT ![dirPath] = NoEntry]
    ELSE [entries EXCEPT ![dirPath] =
             [strategy EXCEPT !.FailCount = @ + 1, !.LastUpdate = now]]

Outcome(strategyType, ok) == [strategy |-> strategyType, ok |-> ok]

\* executeStrategyHTTP: the HEAD probes that executing a learned strategy sends;
\* only the head_request case reaches executeHEADRequestHTTP.
LearnedProbes(strategyType) ==
    IF strategyType = StrategyHEADRequest THEN 1 ELSE 0

\* fallbackChainHTTP: the HEAD probes the chain sends, told from what it
\* reports: a cache hit returns before level 3, while head_request and the
\* empty strategy are both reported after executeHEADRequestHTTP was called.
FallbackProbes(used) ==
    IF used \in {StrategyFileInfoCache, StrategyFileSizeCache} THEN 0 ELSE 1

(***************************************************************************)
(* WebDAV adapter (handler.WebDAVHandler), uploads and size probes.        *)
(* The FileInfo cache, the display-to-encrypted path map and the           *)
(* file-size cache are maps keyed by path; the backend maps a real path    *)
(* to the object stored there.  Entries do not age in this group.          *)
(***************************************************************************)
MinFileSizeForCache == 1024

MaxUploads == 1         \* uploads per run

LoginPageLen == 2000    \* length of the HTML page a backend serves in place of a file

EncryptionErrorText == 17   \* len("Encryption error\n")

\* FileDAO.Get
FileDAOGet(fileDAO, path) ==
    IF path \in DOMAIN fileDAO THEN fileDAO[path] ELSE NoFileInfo

\* FileDAO.Set
FileDAOSet(fileDAO, path, size) == Store(fileDAO, path, [found |-> TRUE, Size |-> size])

\* FileSizeCache.Get: an entry below MinFileSizeForCache is not served
GetFileSize(fileSizeCache, path) ==
    IF path \notin DOMAIN fileSizeCache THEN [ok |-> FALSE, size |-> 0]
    ELSE IF fileSizeCache[path] < MinFileSizeForCache THEN [ok |-> FALSE, size |-> 0]
    ELSE [ok |-> TRUE, size |-> fileSizeCache[path]]

\* FileSizeCache.Set
SetFileSize(fileSizeCache, path, size) == Store(fileSizeCache, path, size)

\* The object the backend holds at a real path
ObjectAt(backend, realPath) ==
    IF realPath \in DOMAIN backend THEN backend[realPath] ELSE NoObject

\* strconv.ParseInt with the error dropped: 0 for what is not a number
ParsedOrZero(parsed) == IF parsed.ok THEN parsed.value ELSE 0

\* strings.Contains(contentType, "text/html") on the model's content types
IsHTML(contentType) == HasPrefix(contentType, "text/html")

(* HEAD probes *)
NoHead == [sent |-> FALSE, err |-> FALSE, StatusCode |-> 0,
           ContentType |-> "", ContentLength |-> <<>>]

HeadFailed == [NoHead EXCEPT !.sent = TRUE, !.err = TRUE]

HeadOf(resp) ==
    [sent |-> TRUE, err |-> FALSE, StatusCode |-> resp.StatusCode,
     ContentType |-> resp.ContentType, ContentLength |-> resp.ContentLength]

LoginPageAnswer ==
    [err |-> FALSE, StatusCode |-> 200,
     ContentLength |-> FormatInt(LoginPageLen), ContentRange |-> <<>>,
     ContentType |-> "text/html; charset=utf-8",
     Body |-> [kind |-> "other", from |-> 0, len |-> LoginPageLen],
     readable |-> LoginPageLen]

\* What client.Do can return for a HEAD of obj: a transport error, the
\* object's own headers (an error page when it is absent), or an HTML page
\* served in its place.
HeadAnswers(obj) ==
    {HeadFailed, HeadOf(LoginPageAnswer),
     HeadOf(IF obj.exists THEN WholeAnswer(obj) ELSE ErrorPageAnswer)}

\* The three grounds on which a HEAD response is no evidence of a file size
HeadRejectable(head) ==
    /\ head.sent
    /\ ~head.err
    /\ \/ head.StatusCode # 200
       \/ IsHTML(head.ContentType)
       \/ ParsedOrZero(ParseInt(head.ContentLength)) < MinFileSizeForCache

(* Exchanges of this group: a download exchange and what the WebDAV,      *)
(* upload and probing handlers add to it.                                  *)
NoUpload == [ContentLength |-> <<>>, bodyLen |-> 0]

NoDavExchange ==
    [handler |-> None, path |-> <<>>, r |-> NoRequest, resp |-> NoResponse,
     obj |-> NoObject, passwdInfo |-> NoPasswdInfo, cachedSize |-> 0,
     out |-> NoOutcome, final |-> NewWriter,
     head |-> NoHead, upstream |-> <<>>, stored |-> 0, upload |-> NoUpload]

DavExchange(x, head, upstream, stored, upload) ==
    [handler |-> x.handler, path |-> x.path, r |-> x.r, resp |-> x.resp,
     obj |-> x.obj, passwdInfo |-> x.passwdInfo, cachedSize |-> x.cachedSize,
     out |-> x.out, final |-> x.final,
     head |-> head, upstream |-> upstream, stored |-> stored, upload |-> upload]

\* A handler's effect: the exchange and the state it leaves behind
Result(x, backend, fileDAO, encPathMap, fileSizeCache) ==
    [x |-> x, backend |-> backend, fileDAO |-> fileDAO,
     encPathMap |-> encPathMap, fileSizeCache |-> fileSizeCache]

\* WebDAVHandler.convertToRealPath
convertToRealPath(encPathMap, davPath, passwdInfo) ==
    IF ~passwdInfo.Enable \/ ~passwdInfo.EncName THEN davPath
    ELSE IF davPath \in DOMAIN encPathMap THEN encPathMap[davPath]
    ELSE IF IsOriginalFile(Base(davPath))
    THEN Append(Dir(davPath), StripOriginalPrefix(Base(davPath)))
    ELSE Append(Dir(davPath), ToRealName(passwdInfo, Base(davPath)))

(* PROPFIND *)
NoPropfindResponse == [err |-> TRUE, StatusCode |-> 0, entries |-> {}]

PropfindNotFound == [err |-> FALSE, StatusCode |-> 404, entries |-> {}]

\* A 207 multistatus: one response element per file, with href and
\* getcontentlength.  Collections carry no size and are left out.
MultiStatus(entries) == [err |-> FALSE, StatusCode |-> 207, entries |-> entries]

Listing(backend, requestPath) ==
    {[href |-> p, size |-> backend[p].size] :
        p \in {q \in DOMAIN backend :
                  backend[q].exists /\ (q = requestPath \/ Dir(q) = requestPath)}}

Directories == {<<>>, <<"enc">>, <<"encn">>}

\* What client.Do can return for a PROPFIND of requestPath: a transport
\* error, 404, or the listing of what the backend holds there.
PropfindAnswers(backend, requestPath) ==
    {NoPropfindResponse, PropfindNotFound}
        \cup (IF requestPath \in Directories \/ ObjectAt(backend, requestPath).exists
              THEN {MultiStatus(Listing(backend, requestPath))}
              ELSE {})

\* parsePropfindResponse: every response element is cached under its href
CacheEntries(fileDAO, entries) ==
    [p \in DOMAIN fileDAO \cup {e.href : e \in entries} |->
        IF \E e \in entries : e.href = p
        THEN [found |-> TRUE, Size |-> (CHOOSE e \in entries : e.href = p).size]
        ELSE fileDAO[p]]

\* decryptHrefElements, per href: the display path it is shown under, or
\* the href itself when its name is left as it is
ShownAs(href, fileName, decryptedName) ==
    IF href = <<>> \/ fileName \in {"", "/", "."} THEN href
    ELSE IF decryptedName # "" /\ ~IsOriginalFile(decryptedName)
            /\ decryptedName # fileName
    THEN Append(Dir(href), decryptedName)
    ELSE href

DisplayPathOf(href, passwdInfo) ==
    ShownAs(href, Base(href),
            IF href = <<>> THEN ""
            ELSE ConvertShowName(passwdInfo.Password, passwdInfo.EncType, Base(href)))

\* decryptPropfindResponse: SetEncPathMapping for every renamed href
MapEntries(encPathMap, entries, passwdInfo) ==
    [d \in DOMAIN encPathMap
            \cup {DisplayPathOf(e.href, passwdInfo) :
                     e \in {f \in entries : DisplayPathOf(f.href, passwdInfo) # f.href}} |->
        IF \E e \in entries : DisplayPathOf(e.href, passwdInfo) = d /\ e.href # d
        THEN (CHOOSE e \in entries :
                  DisplayPathOf(e.href, passwdInfo) = d /\ e.href # d).href
        ELSE encPathMap[d]]

\* handlePropfind, step 1: the path of the first upstream PROPFIND
PropfindRequestPath(encPathMap, davPath, passwdInfo) ==
    IF passwdInfo.Enable /\ passwdInfo.EncName /\ davPath \in DOMAIN encPathMap
    THEN encPathMap[davPath]
    ELSE davPath

\* A retry on every 404 under encName, whatever the base name
RetryOnEvery404(first, passwdInfo, davPath) ==
    first.StatusCode = 404 /\ passwdInfo.Enable /\ passwdInfo.EncName

\* handlePropfind, step 2: whether the PROPFIND is sent a second time
ShouldRetryPropfind(first, passwdInfo, davPath) ==
    /\ first.StatusCode = 404
    /\ passwdInfo.Enable
    /\ passwdInfo.EncName
    /\ Base(davPath) \notin {"", "/", "."}

Sent(requestPath, resp) ==
    [path |-> requestPath, err |-> resp.err, StatusCode |-> resp.StatusCode]

PropfindExchange(davPath, passwdInfo, w, upstream) ==
    [NoDavExchange EXCEPT !.handler = "handlePropfind", !.path = davPath,
                          !.passwdInfo = passwdInfo,
                          !.out = Outcome4(None, w, NoCipher, TRUE, TRUE),
                          !.final = w, !.upstream = upstream]

\* handlePropfind, steps 3 and 4 and the response; the body is measured in
\* response elements
PropfindFinish(backend, fileDAO, encPathMap, fileSizeCache, davPath, passwdInfo, resp, upstream) ==
    Result(PropfindExchange(davPath, passwdInfo,
                            [WriteHeader(NewWriter, resp.StatusCode,
                                         Cardinality(resp.entries), <<>>)
                                EXCEPT !.len = Cardinality(resp.entries)],
                            upstream),
           backend,
           CacheEntries(fileDAO, resp.entries),
           IF passwdInfo.Enable /\ passwdInfo.EncName /\ resp.StatusCode = 207
           THEN MapEntries(encPathMap, resp.entries, passwdInfo)
           ELSE encPathMap,
           fileSizeCache)

PropfindFailed(backend, fileDAO, encPathMap, fileSizeCache, davPath, passwdInfo, upstream) ==
    Result(PropfindExchange(davPath, passwdInfo,
                            RespondHTTPErrorWithStatus(NewWriter, ProxyErrorText,
                                                       502, TRUE),
                            upstream),
           backend, fileDAO, encPathMap, fileSizeCache)

\* WebDAVHandler.handlePropfind, given the upstream answers to the request
\* and to its retry
handlePropfind(backend, fileDAO, encPathMap, fileSizeCache, davPath, passwdInfo, first, second) ==
    IF first.err
    THEN PropfindFailed(backend, fileDAO, encPathMap, fileSizeCache, davPath,
                        passwdInfo,
                        <<Sent(PropfindRequestPath(encPathMap, davPath, passwdInfo),
                               first)>>)
    ELSE IF ShouldRetryPropfind(first, passwdInfo, davPath)
    THEN PropfindFinish(backend, fileDAO, encPathMap, fileSizeCache, davPath,
                        passwdInfo,
                        IF second.err THEN first ELSE second,
                        <<Sent(PropfindRequestPath(encPathMap, davPath, passwdInfo),
                               first),
                          Sent(convertToRealPath(encPathMap, davPath, passwdInfo),
                               second)>>)
    ELSE PropfindFinish(backend, fileDAO, encPathMap, fileSizeCache, davPath,
                        passwdInfo, first,
                        <<Sent(PropfindRequestPath(encPathMap, davPath, passwdInfo),
                               first)>>)

(* Uploads *)
CreatedAnswer ==
    [err |-> FALSE, StatusCode |-> 201, ContentLength |-> <<"0">>,
     ContentRange |-> <<>>, ContentType |-> "", Body |-> NoBody, readable |-> 0]

\* What client.Do can return for an upload: a transport error or 201
UploadAnswers == {NoResponse, CreatedAnswer}

\* StreamProxy.ProxyUploadEncrypt from the cipher on
UploadStream(w, resp, flowEnc) ==
    IF ~flowEnc.ok
    THEN Outcome4("failed to create cipher", w, NoCipher, FALSE, TRUE)
    ELSE IF resp.err
    THEN Outcome4("failed to upload", w, flowEnc, TRUE, TRUE)
    ELSE Streamed(CopyBuffer(WriteHeader(w, resp.StatusCode,
                                         ParsedOrZero(ParseInt(resp.ContentLength)),
                                         <<>>),
                             resp.Body, NoCipher, resp.readable, -1, NoRequest),
                  flowEnc)

\* StreamProxy.ProxyUploadEncrypt
ProxyUploadEncrypt(w, resp, passwdInfo, fileSize) ==
    UploadStream(w, resp,
                 NewFlowEnc(passwdInfo.Password, passwdInfo.EncType, fileSize))

\* What the backend holds after an upload: the body as the proxy sent it
Uploaded(backend, realPath, out, up, ver) ==
    IF out.err = None /\ out.w.status = 201
    THEN Store(backend, realPath,
               [exists |-> TRUE, size |-> up.bodyLen, ver |-> ver,
                key |-> out.flowEnc])
    ELSE backend

UploadResult(handler, backend, fileDAO, encPathMap, fileSizeCache, uploadPath, realPath, passwdInfo, up, resp, ver, fileSize, out, textLen) ==
    Result(DavExchange(Answered(handler, uploadPath, NoRequest, resp,
                                ObjectAt(Uploaded(backend, realPath, out, up, ver),
                                         realPath),
                                passwdInfo, fileSize, out, textLen),
                       NoHead, <<>>, 0, up),
           Uploaded(backend, realPath, out, up, ver),
           fileDAO, encPathMap, fileSizeCache)

\* handlePut: the encrypted path of an upload under encName
PutRealPath(davPath, passwdInfo, fileName) ==
    IF ~passwdInfo.EncName THEN davPath
    ELSE Append(Dir(davPath),
                EncodeName(passwdInfo.Password, passwdInfo.EncType,
                           TrimSuffix(fileName, Ext(fileName)))
                    \o (IF passwdInfo.EncSuffix = "" THEN Ext(fileName)
                        ELSE passwdInfo.EncSuffix))

PutWithRule(backend, fileDAO, encPathMap, fileSizeCache, davPath, passwdInfo, up, resp, ver, fileSize) ==
    UploadResult("handlePut", backend,
                 IF passwdInfo.EncName THEN FileDAOSet(fileDAO, davPath, fileSize)
                 ELSE fileDAO,
                 encPathMap, fileSizeCache, davPath,
                 PutRealPath(davPath, passwdInfo, Base(davPath)),
                 passwdInfo, up, resp, ver, fileSize,
                 ProxyUploadEncrypt(NewWriter, resp, passwdInfo, fileSize),
                 EncryptionErrorText)

\* handlePassthrough of an upload: the body goes to the backend as it came
UploadPassthrough(handler, backend, fileDAO, encPathMap, fileSizeCache, uploadPath, passwdInfo, up, resp, ver) ==
    UploadResult(handler, backend, fileDAO, encPathMap, fileSizeCache,
                 uploadPath, uploadPath, passwdInfo, up, resp, ver, 0,
                 ProxyRequest(NewWriter, NoRequest, resp), ProxyErrorText)

\* WebDAVHandler.handlePut
handlePut(backend, fileDAO, encPathMap, fileSizeCache, davPath, passwdInfo, up, resp, ver) ==
    IF ~passwdInfo.Enable
    THEN UploadPassthrough("handlePut", backend, fileDAO, encPathMap,
                           fileSizeCache, davPath, passwdInfo, up, resp, ver)
    ELSE PutWithRule(backend, fileDAO, encPathMap, fileSizeCache, davPath,
                     passwdInfo, up, resp, ver,
                     ParsedOrZero(ParseInt(up.ContentLength)))

\* HandleFsPut: the encrypted path of an upload under encName
FsPutRealPath(uploadPath, passwdInfo, fileName) ==
    IF ~passwdInfo.EncName THEN uploadPath
    ELSE Append(Dir(uploadPath),
                EncodeName(passwdInfo.Password, passwdInfo.EncType, fileName)
                    \o (IF passwdInfo.EncSuffix = "" THEN Ext(fileName)
                        ELSE passwdInfo.EncSuffix))

FsPutWithRule(backend, fileDAO, encPathMap, fileSizeCache, uploadPath, passwdInfo, up, resp, ver, fileSize) ==
    UploadResult("HandleFsPut", backend, fileDAO, encPathMap, fileSizeCache,
                 uploadPath,
                 FsPutRealPath(uploadPath, passwdInfo, Base(uploadPath)),
                 passwdInfo, up, resp, ver, fileSize,
                 ProxyUploadEncrypt(NewWriter, resp, passwdInfo, fileSize),
                 EncryptionErrorText)

\* AlistHandler.HandleFsPut
HandleFsPut(backend, fileDAO, encPathMap, fileSizeCache, uploadPath, passwdInfo, up, resp, ver) ==
    IF ~passwdInfo.Enable
    THEN UploadPassthrough("HandleFsPut", backend, fileDAO, encPathMap,
                           fileSizeCache, uploadPath, passwdInfo, up, resp, ver)
    ELSE FsPutWithRule(backend, fileDAO, encPathMap, fileSizeCache, uploadPath,
                       passwdInfo, up, resp, ver,
                       ParsedOrZero(ParseInt(up.ContentLength)))

(* WebDAV GET *)
\* StreamProxy.ProxyDownloadDecryptReq: the request comes ready built
ProxyDownloadDecryptReq(w, req, resp, passwdInfo, fileSize) ==
    IF resp.err
    THEN Outcome4("failed to fetch", w, NoCipher, TRUE, TRUE)
    ELSE DecryptWithSize(w, req, resp, passwdInfo, resolveFileSize(fileSize, resp))

\* handleGet, the HEAD branch: Content-Length of whatever came back
SizeFromHead(head) ==
    IF head.err \/ head.ContentLength = <<>> THEN 0
    ELSE ParsedOrZero(ParseInt(head.ContentLength))

GetWithSize(backend, fileDAO, encPathMap, fileSizeCache, davPath, passwdInfo, r, obj, resp, head, fileSize) ==
    Result(DavExchange(Answered("handleGet", davPath, r, resp, obj, passwdInfo,
                                fileSize,
                                ProxyDownloadDecryptReq(NewWriter, r, resp,
                                                        passwdInfo, fileSize),
                                DecryptionErrorText),
                       head, <<>>, 0, NoUpload),
           backend, fileDAO, encPathMap, fileSizeCache)

GetWithInfo(backend, fileDAO, encPathMap, fileSizeCache, davPath, passwdInfo, r, obj, resp, head, fileInfo) ==
    IF fileInfo.found
    THEN GetWithSize(backend, fileDAO, encPathMap, fileSizeCache, davPath,
                     passwdInfo, r, obj, resp, NoHead, fileInfo.Size)
    ELSE GetWithSize(backend, fileDAO, encPathMap, fileSizeCache, davPath,
                     passwdInfo, r, obj, resp, head, SizeFromHead(head))

\* WebDAVHandler.handleGet, given the upstream answers to its HEAD and GET
handleGet(backend, fileDAO, encPathMap, fileSizeCache, davPath, passwdInfo, r, obj, resp, head) ==
    IF ~passwdInfo.Enable
    THEN Result(DavExchange(Answered("handleGet", davPath, r, resp, obj,
                                     passwdInfo, 0,
                                     ProxyRequest(NewWriter, r, resp),
                                     ProxyErrorText),
                            NoHead, <<>>, 0, NoUpload),
                backend, fileDAO, encPathMap, fileSizeCache)
    ELSE GetWithInfo(backend, fileDAO, encPathMap, fileSizeCache, davPath,
                     passwdInfo, r, obj, resp, head, FileDAOGet(fileDAO, davPath))

(* Size probes *)
ProbeExchange(handler, path, passwdInfo, head, size, stored) ==
    [NoDavExchange EXCEPT !.handler = handler, !.path = path,
                          !.passwdInfo = passwdInfo, !.cachedSize = size,
                          !.head = head, !.stored = stored]

PrefetchProbe(backend, fileDAO, encPathMap, fileSizeCache, encryptedPath, passwdInfo, head, size) ==
    IF ~head.err /\ head.ContentLength # <<>> /\ size.ok /\ size.value > 0
    THEN Result(ProbeExchange("PrefetchFileSize", encryptedPath, passwdInfo,
                              head, 0, size.value),
                backend, fileDAO, encPathMap,
                SetFileSize(fileSizeCache, encryptedPath, size.value))
    ELSE Result(ProbeExchange("PrefetchFileSize", encryptedPath, passwdInfo,
                              head, 0, 0),
                backend, fileDAO, encPathMap, fileSizeCache)

\* PrefetchManager.PrefetchFileSize with its goroutine, given the upstream
\* answer to the HEAD
PrefetchFileSize(backend, fileDAO, encPathMap, fileSizeCache, encryptedPath, passwdInfo, head) ==
    IF GetFileSize(fileSizeCache, encryptedPath).ok
    THEN Result(ProbeExchange("PrefetchFileSize", encryptedPath, passwdInfo,
                              NoHead, 0, 0),
                backend, fileDAO, encPathMap, fileSizeCache)
    ELSE PrefetchProbe(backend, fileDAO, encPathMap, fileSizeCache,
                       encryptedPath, passwdInfo, head,
                       ParseInt(head.ContentLength))

\* ProxyHandler.executeHEADRequestHTTP: [ok, size]
HeadSize(head, size) ==
    IF head.ContentLength = <<>> \/ ~size.ok THEN [ok |-> FALSE, size |-> 0]
    ELSE IF size.value < MinFileSizeForCache THEN [ok |-> FALSE, size |-> 0]
    ELSE [ok |-> TRUE, size |-> size.value]

executeHEADRequestHTTP(head) ==
    IF head.err THEN [ok |-> FALSE, size |-> 0]
    ELSE IF head.StatusCode # 200 THEN [ok |-> FALSE, size |-> 0]
    ELSE IF IsHTML(head.ContentType) THEN [ok |-> FALSE, size |-> 0]
    ELSE HeadSize(head, ParseInt(head.ContentLength))

FallbackProbe(backend, fileDAO, encPathMap, fileSizeCache, displayPath, realPath, passwdInfo, head, probed) ==
    IF probed.ok /\ probed.size > 0
    THEN Result(ProbeExchange("fallbackChainHTTP", displayPath, passwdInfo,
                              head, probed.size, probed.size),
                backend, fileDAO, encPathMap,
                SetFileSize(fileSizeCache, realPath, probed.size))
    ELSE Result(ProbeExchange("fallbackChainHTTP", displayPath, passwdInfo,
                              head, 0, 0),
                backend, fileDAO, encPathMap, fileSizeCache)

FallbackCached(backend, fileDAO, encPathMap, fileSizeCache, displayPath, realPath, passwdInfo, head, fileInfo, cached) ==
    IF fileInfo.found
    THEN Result(ProbeExchange("fallbackChainHTTP", displayPath, passwdInfo,
                              NoHead, fileInfo.Size, 0),
                backend, fileDAO, encPathMap, fileSizeCache)
    ELSE IF cached.ok
    THEN Result(ProbeExchange("fallbackChainHTTP", displayPath, passwdInfo,
                              NoHead, cached.size, 0),
                backend, fileDAO, encPathMap, fileSizeCache)
    ELSE FallbackProbe(backend, fileDAO, encPathMap, fileSizeCache, displayPath,
                       realPath, passwdInfo, head, executeHEADRequestHTTP(head))

\* ProxyHandler.fallbackChainHTTP, given the upstream answer to its HEAD
fallbackChainHTTP(backend, fileDAO, encPathMap, fileSizeCache, displayPath, realPath, passwdInfo, head) ==
    FallbackCached(backend, fileDAO, encPathMap, fileSizeCache, displayPath,
                   realPath, passwdInfo, head, FileDAOGet(fileDAO, displayPath),
                   GetFileSize(fileSizeCache, realPath))

\* The requests of this group
DavFiles == {<<"enc", "a.bin">>, <<"encn", "a.bin">>, <<"plain", "a.bin">>}

PropfindPaths == DavFiles \cup {<<>>, <<"encn">>, <<"encn", ".">>}

\* The file the probes are sent for
ProbedFiles == {<<"enc", "a.bin">>}

DavSizes == {100, 2000}

Uploads ==
    {[ContentLength |-> FormatInt(n), bodyLen |-> n] : n \in DavSizes \cup {0}}
        \cup {[ContentLength |-> <<>>, bodyLen |-> 100]}

DavRequests == [Range : {HdrNone, HdrBounded}, urlOK : {TRUE},
                chunk : {streamBufferSize}, clientReads : {-1}]

(***************************************************************************)
(* What the client holds at the end of an exchange                         *)
(***************************************************************************)
\* Bodies are compared at these offsets of a body of n bytes.
ProbeOffsets(n) ==
    {i \in {0, 1, 2, n \div 3, n \div 2, n - 2, n - 1} : 0 <= i /\ i < n}

\* The response body of exchange x is exactly bytes from .. from+n-1 of the
\* plaintext of the object it was asked for, and nothing else.
DeliversPlaintext(x, from, n) ==
    /\ x.final.len = n
    /\ x.final.textLen = 0
    /\ \A i \in ProbeOffsets(n) :
           ClientByte(x.final, x.obj, i) = PlainByte(x.obj.ver, from + i)

\* The exchange went to a rule-matched path.
RuleMatched(x) == x.handler # None /\ x.passwdInfo.Enable

\* Nothing went wrong around the exchange: the backend holds the object,
\* answered, its body arrived whole and the client read the whole response.
Undisturbed(x) ==
    /\ x.r.urlOK
    /\ x.r.clientReads < 0
    /\ x.obj.exists
    /\ ~x.resp.err
    /\ x.resp.readable = x.resp.Body.len

(***************************************************************************)
(* Directory listings (AlistHandler.HandleFsList): the entries of the      *)
(* backend's answer get their path, encrypted names are decrypted by       *)
(* worker goroutines, covers are folded into their videos.  An entry is    *)
(* [name, is_dir, type, path, thumb]; a path is a sequence of segments.    *)
(***************************************************************************)
\* const maxWorkers = 32, lowered so that a listing can fill the pool
maxWorkers == 2

TypeVideo == 2

TypeImage == 5

\* strings.Split(name, ".")[0]
Stem(name) ==
    LET dots == {i \in 1..Len(name) : SubSeq(name, i, i) = "."}
    IN IF dots = {} THEN name
       ELSE SubSeq(name, 1, (CHOOSE i \in dots : \A j \in dots : i <= j) - 1)

\* First loop: fileData["path"] = path.Join(dirPath, name)
WithPath(dirPath, item) ==
    IF item.name = "" THEN item ELSE [item EXCEPT !.path = Append(dirPath, item.name)]

\* First loop: the entry gets a decrypt task
NeedsDecrypt(passwdList, dirPath, item) ==
    /\ item.name # ""
    /\ ~item.is_dir
    /\ PathFindPasswd(passwdList, Append(dirPath, item.name)).found
    /\ PathFindPasswd(passwdList, Append(dirPath, item.name)).rule.EncName

\* First loop: the tasks in listing order, from entry i on
RECURSIVE TasksFrom(_, _, _, _)
TasksFrom(passwdList, dirPath, content, i) ==
    IF i > Len(content) THEN <<>>
    ELSE IF NeedsDecrypt(passwdList, dirPath, content[i])
    THEN <<[index |-> i, name |-> content[i].name,
            passwdInfo |-> PathFindPasswd(passwdList,
                                          Append(dirPath, content[i].name)).rule]>>
             \o TasksFrom(passwdList, dirPath, content, i + 1)
    ELSE TasksFrom(passwdList, dirPath, content, i + 1)

IsCover(item) == item.name # "" /\ ~item.is_dir /\ item.type = TypeImage

\* First loop: coverNameMap[baseName] = name, a later image replacing an earlier
CoverNameMap(content) ==
    [baseName \in {Stem(content[i].name) : i \in {j \in 1..Len(content) : IsCover(content[j])}} |->
        content[CHOOSE i \in 1..Len(content) :
                    /\ IsCover(content[i])
                    /\ Stem(content[i].name) = baseName
                    /\ \A j \in (i + 1)..Len(content) :
                           ~(IsCover(content[j]) /\ Stem(content[j].name) = baseName)].name]

\* A result that names the first entry whatever task it came from
decryptResultUnindexed(t) ==
    [index |-> 1, showName |-> ConvertShowName(t.passwdInfo.Password, t.passwdInfo.EncType, t.name)]

\* The worker goroutine: decryptResult{index: t.index, showName: showName}
decryptResult(t) ==
    [index |-> t.index,
     showName |-> ConvertShowName(t.passwdInfo.Password, t.passwdInfo.EncType, t.name)]

\* Collecting: fileData["name"] = result.showName at content[result.index]
ApplyResult(content, result) ==
    [content EXCEPT ![result.index].name = result.showName]

\* Second loop: the entry is a video whose stem names a cover
HasCover(item, coverNameMap) ==
    ~item.is_dir /\ item.type = TypeVideo /\ Stem(item.name) \in DOMAIN coverNameMap

\* Second loop: fileData["thumb"] = "/d" + dirPath + "/" + coverName
WithThumbs(dirPath, content, coverNameMap) ==
    [i \in 1..Len(content) |->
        IF HasCover(content[i], coverNameMap)
        THEN [content[i] EXCEPT
                  !.thumb = <<"d">> \o dirPath \o <<coverNameMap[Stem(content[i].name)]>>]
        ELSE content[i]]

OmitNames(content, coverNameMap) ==
    {coverNameMap[Stem(content[i].name)] :
        i \in {j \in 1..Len(content) : HasCover(content[j], coverNameMap)}}

Kept(item, omitNames) == item.name \notin omitNames

\* Third loop: the entries named in omitNames are left out
FoldCovers(dirPath, content, coverNameMap) ==
    LET omitNames == OmitNames(content, coverNameMap)
    IN SelectSeq(WithThumbs(dirPath, content, coverNameMap),
                 LAMBDA item : Kept(item, omitNames))

\* No semaphore: a goroutine is started whatever the number in flight
AcquireAlways(inFlight) == TRUE

\* semaphore <- struct{}{} goes through while fewer than maxWorkers hold it
Acquire(inFlight) == inFlight < maxWorkers

\* The listing the client gets when every name is decrypted in its place
\* and the covers are folded afterwards
RECURSIVE Decrypted(_, _, _)
Decrypted(content, tasks, k) ==
    IF k > Len(tasks) THEN content
    ELSE Decrypted(ApplyResult(content, decryptResult(tasks[k])), tasks, k + 1)

FsListResponse(passwdList, dirPath, listing) ==
    FoldCovers(dirPath,
               Decrypted([i \in 1..Len(listing) |-> WithPath(dirPath, listing[i])],
                         TasksFrom(passwdList, dirPath, listing, 1), 1),
               CoverNameMap(listing))

NoListing == [pc |-> "idle", dirPath |-> <<>>, listing |-> <<>>, content |-> <<>>,
              tasks |-> <<>>, coverNameMap |-> <<>>, spawned |-> 0,
              workers |-> <<>>, peak |-> 0, results |-> <<>>, order |-> <<>>,
              response |-> <<>>]

\* HandleFsList up to the worker pool: [pc, content, tasks, coverNameMap, ...]
Scanned(passwdList, dirPath, listing) ==
    LET content == [i \in 1..Len(listing) |-> WithPath(dirPath, listing[i])]
        tasks   == TasksFrom(passwdList, dirPath, listing, 1)
    IN [NoListing EXCEPT
           !.pc = IF tasks = <<>> THEN "responded" ELSE "spawning",
           !.dirPath = dirPath, !.listing = listing, !.content = content,
           !.tasks = tasks, !.coverNameMap = CoverNameMap(listing),
           !.response = IF tasks = <<>>
                        THEN FoldCovers(dirPath, content, CoverNameMap(listing))
                        ELSE <<>>]

\* The tasks holding the semaphore
InFlight(l) == {k \in 1..Len(l.workers) : l.workers[k] # "released"}

\* What the backend lists: files written through the rule carry their real
\* name, files put there by other means and directories their own.
ListedFiles ==
    {[show |-> "video.mp4", is_dir |-> FALSE, type |-> TypeVideo, foreign |-> FALSE],
     [show |-> "video.jpg", is_dir |-> FALSE, type |-> TypeImage, foreign |-> FALSE],
     [show |-> "video.jpg", is_dir |-> FALSE, type |-> TypeImage, foreign |-> TRUE],
     [show |-> "sub", is_dir |-> TRUE, type |-> 1, foreign |-> FALSE]}

BackendEntry(passwdInfo, f) ==
    [name |-> IF passwdInfo.EncName /\ ~f.is_dir /\ ~f.foreign
              THEN ToRealName(passwdInfo, f.show) ELSE f.show,
     is_dir |-> f.is_dir, type |-> f.type, path |-> <<>>, thumb |-> <<>>]

ListedDirs == {<<"enc">>, <<"encn">>}

MaxListing == 3

\* The listings of a directory: up to MaxListing entries with distinct names
Listings(dirPath) ==
    LET pool == {BackendEntry(FindByPath(PasswdList, dirPath), f) : f \in ListedFiles}
    IN UNION {{l \in [1..n -> pool] : \A i, j \in 1..n : i # j => l[i].name # l[j].name} :
                  n \in 1..MaxListing}

NoCall == [op |-> None]

(***************************************************************************)
(* Initial states, one predicate per group of variables                    *)
(***************************************************************************)
StrategyInit ==
    /\ strategies = [d \in Dirs |-> NoEntry]
    /\ scNow = 0
    /\ scHistory = [d \in Dirs |-> <<>>]
    /\ scReq = [r \in Reqs |-> [pc |-> "idle", dir |-> None, learned |-> None,
                               heads |-> 0]]

DownloadInit ==
    \E size \in DownloadSizes, exists \in BOOLEAN, listed \in BOOLEAN :
        /\ dlBackend =
               [rp \in {DownloadTarget(PasswdList, p) : p \in DownloadPaths} |->
                   LET p == CHOOSE q \in DownloadPaths :
                                DownloadTarget(PasswdList, q) = rp
                   IN IF exists THEN StoredFor(FindByPath(PasswdList, p), size, 1)
                      ELSE NoObject]
        /\ dlFileDAO = [p \in DownloadPaths |->
                           IF exists /\ listed THEN [found |-> TRUE, Size |-> size]
                           ELSE NoFileInfo]
        /\ dl = NoExchange

\* A group no request of the specification at hand touches
DownloadIdle ==
    /\ dlBackend = [rp \in {} |-> NoObject]
    /\ dlFileDAO = [p \in {} |-> NoFileInfo]
    /\ dl = NoExchange

\* NewProxyHandler: an empty registry, the sweeper started
RedirectInit ==
    /\ redirectMap = [k \in {} |-> NoRedirect]
    /\ redirectKeys = <<>>
    /\ rdNow = 0
    /\ rdSwept = 0
    /\ rdNano = 0
    /\ rdIssued = {}
    /\ rdPending = {}
    /\ rdLedger = [k \in {} |-> NoRedirect]
    /\ rdOrder = <<>>
    /\ rd = NoRedirectExchange

\* The backend holds one file, stored under the first rule; the caches
\* are empty.
DavInit ==
    /\ dvBackend = [rp \in {<<"enc", "a.bin">>} |->
                       StoredFor(FindByPath(PasswdList, rp), 100, 1)]
    /\ dvFileDAO = [p \in {} |-> NoFileInfo]
    /\ dvEncPathMap = [p \in {} |-> <<>>]
    /\ dvFileSizeCache = [p \in {} |-> 0]
    /\ dvUploads = 0
    /\ dv = NoDavExchange

DavIdle ==
    /\ dvBackend = [rp \in {} |-> NoObject]
    /\ dvFileDAO = [p \in {} |-> NoFileInfo]
    /\ dvEncPathMap = [p \in {} |-> <<>>]
    /\ dvFileSizeCache = [p \in {} |-> 0]
    /\ dvUploads = 0
    /\ dv = NoDavExchange

\* The configuration as loaded: both rules enabled, nothing cached.
ResolverInit ==
    /\ pwList = <<RuleA, RuleB>>
    /\ pwCache = [p \in {} |-> NoItem]
    /\ pwNow = 0
    /\ pwOverrode = FALSE
    /\ pw = NoLookup

\* No download is in hand.
FetchInit == ft = NoFetch

\* No listing is in hand.
ListInit == ls = NoListing

\* No call is in hand.
CalcInit == calc = NoCall

\* A request that holds no buffer
IdleRequest == [pc |-> "idle", handler |-> None, buf |-> 0, gets |-> 0, puts |-> 0,
                chunks |-> 0, exit |-> None]

\* The pool is empty and no request is being served.
PoolInit ==
    /\ bufferPool = {}
    /\ bufMade = 0
    /\ bq = [r \in Reqs |-> IdleRequest]

\* The goroutines that use the generic cache, and its keys
Goroutines == {"g1", "g2"}

CacheKeys == {"k1", "k2", "k3"}

IdleGoroutine ==
    [pc |-> "idle", op |-> None, key |-> None, call |-> 0, val |-> 0,
     ttl |-> 0, next |-> None]

\* NewCache: no items, no call in flight; the clock starts at 1, so that
\* Expiration 0 is the mark of an item that never expires
CacheInit ==
    /\ ccItems = [k \in {} |-> 0]
    /\ ccNow = 1
    /\ sfM = [k \in CacheKeys |-> 0]
    /\ sfCall = <<>>
    /\ cg = [g \in Goroutines |-> IdleGoroutine]

\* The paths whose sizes are cached
SizePaths == {"a", "b", "c"}

NotSet == [set |-> FALSE, Size |-> 0, ExpiresAt |-> 0, others |-> 0]

NoGet == [path |-> None, size |-> 0, ok |-> FALSE]

\* NewFileSizeCache: no entries, an empty list
FileSizeInit ==
    /\ fsEntries = [p \in {} |-> 0]
    /\ fsLru = <<>>
    /\ fsNow = 0
    /\ fsSince = [p \in SizePaths |-> NotSet]
    /\ fsLast = NoGet

\* Every group but the listing's and the call's, at rest
AtRest ==
    StrategyInit /\ DownloadIdle /\ RedirectInit /\ DavIdle /\ ResolverInit /\ FetchInit

InitStrategy == StrategyInit /\ DownloadIdle /\ RedirectInit /\ DavIdle /\ ResolverInit /\ FetchInit
    /\ ListInit /\ CalcInit /\ FileSizeInit /\ CacheInit /\ PoolInit

InitDownload == DownloadInit /\ StrategyInit /\ RedirectInit /\ DavIdle /\ ResolverInit /\ FetchInit
    /\ ListInit /\ CalcInit /\ FileSizeInit /\ CacheInit /\ PoolInit

InitRedirect == RedirectInit /\ StrategyInit /\ DownloadIdle /\ DavIdle /\ ResolverInit /\ FetchInit
    /\ ListInit /\ CalcInit /\ FileSizeInit /\ CacheInit /\ PoolInit

InitDav == DavInit /\ StrategyInit /\ DownloadIdle /\ RedirectInit /\ ResolverInit /\ FetchInit
    /\ ListInit /\ CalcInit /\ FileSizeInit /\ CacheInit /\ PoolInit

InitResolver == ResolverInit /\ StrategyInit /\ DownloadIdle /\ RedirectInit /\ DavIdle /\ FetchInit
    /\ ListInit /\ CalcInit /\ FileSizeInit /\ CacheInit /\ PoolInit

InitFetch == FetchInit /\ DownloadInit /\ StrategyInit /\ RedirectInit /\ DavIdle /\ ResolverInit
    /\ ListInit /\ CalcInit /\ FileSizeInit /\ CacheInit /\ PoolInit

InitList == ListInit /\ CalcInit /\ FileSizeInit /\ CacheInit /\ PoolInit /\ AtRest

InitCalc == CalcInit /\ FileSizeInit /\ CacheInit /\ PoolInit /\ ListInit /\ AtRest

(***************************************************************************)
(* The learned-strategy memo at work: getFileSizeWithStrategy              *)
(***************************************************************************)
\* Time passes.
ScTick ==
    /\ scNow + ClockStep <= MaxClock
    /\ scNow' = scNow + ClockStep
    /\ UNCHANGED <<strategies, scHistory, scReq>>
    /\ UNCHANGED otherThanStrategy

\* getFileSizeWithStrategy, lines 19-25: look the directory up in the memo.
GfsLookup(r, d) ==
    /\ scReq[r].pc = "idle"
    /\ LET strategy == GetStrategy(strategies, d, scNow) IN
       scReq' = [scReq EXCEPT ![r] =
                    IF strategy = NoEntry
                    THEN [pc |-> "fallback", dir |-> d, learned |-> None,
                          heads |-> 0]
                    ELSE [pc |-> "learned", dir |-> d, learned |-> strategy.Strategy,
                          heads |-> 0]]
    /\ UNCHANGED <<strategies, scNow, scHistory>>
    /\ UNCHANGED otherThanStrategy

\* getFileSizeWithStrategy, lines 26-38: the learned strategy is executed; it
\* yields a size (success recorded, the request is served) or not (failure
\* recorded, the fallback chain follows).
GfsLearned(r, ok) ==
    /\ scReq[r].pc = "learned"
    /\ Len(scHistory[scReq[r].dir]) < MaxHistory
    /\ LET d == scReq[r].dir
           s == scReq[r].learned
       IN /\ ok => strategies[d].SuccessCount < MaxSuccessCount
          /\ IF ok
             THEN /\ strategies' \in RecordSuccess(strategies, d, s, scNow)
                  /\ scReq' = [scReq EXCEPT ![r] =
                                  [pc |-> "idle", dir |-> None, learned |-> None,
                                   heads |-> @.heads + LearnedProbes(s)]]
             ELSE /\ strategies' = RecordFailure(strategies, d, s, scNow)
                  /\ scReq' = [scReq EXCEPT ![r].pc = "fallback",
                                            ![r].heads = @ + LearnedProbes(s)]
          /\ scHistory' = [scHistory EXCEPT ![d] = Append(@, Outcome(s, ok))]
    /\ UNCHANGED scNow
    /\ UNCHANGED otherThanStrategy

\* getFileSizeWithStrategy, lines 40-49: the fallback chain ran; used is the
\* strategy that produced a size, or None when every level failed.
GfsFallback(r, used) ==
    /\ scReq[r].pc = "fallback"
    /\ LET d == scReq[r].dir IN
       IF used = None
       THEN UNCHANGED <<strategies, scHistory>>
       ELSE /\ Len(scHistory[d]) < MaxHistory
            /\ strategies[d].SuccessCount < MaxSuccessCount
            /\ strategies' \in RecordSuccess(strategies, d, used, scNow)
            /\ scHistory' = [scHistory EXCEPT ![d] = Append(@, Outcome(used, TRUE))]
    /\ scReq' = [scReq EXCEPT ![r] = [pc |-> "idle", dir |-> None, learned |-> None,
                                      heads |-> @.heads + FallbackProbes(used)]]
    /\ UNCHANGED scNow
    /\ UNCHANGED otherThanStrategy

NextStrategy ==
    \/ ScTick
    \/ \E r \in Reqs, d \in Dirs : GfsLookup(r, d)
    \/ \E r \in Reqs, ok \in BOOLEAN : GfsLearned(r, ok)
    \/ \E r \in Reqs, used \in StrategyTypes \cup {None} : GfsFallback(r, used)

SpecStrategy == InitStrategy /\ [][NextStrategy]_vars

(***************************************************************************)
(* Downloads                                                               *)
(***************************************************************************)
\* A client sends a download request and HandleDownload answers it.
DlHandleDownload(displayPath, r) ==
    /\ dl = NoExchange
    /\ \E obj \in {dlBackend[DownloadTarget(PasswdList, displayPath)]} :
         \E resp \in UpstreamAnswers(obj, r.Range) :
           dl' = HandleDownload(PasswdList, dlFileDAO, displayPath, r, obj, resp)
    /\ UNCHANGED <<dlBackend, dlFileDAO>>
    /\ UNCHANGED otherThanDownload

\* The client has taken the response; the connection is free again.
DlDone ==
    /\ dl # NoExchange
    /\ dl' = NoExchange
    /\ UNCHANGED <<dlBackend, dlFileDAO>>
    /\ UNCHANGED otherThanDownload

NextDownload ==
    \/ \E displayPath \in DownloadPaths, r \in Requests :
           DlHandleDownload(displayPath, r)
    \/ DlDone

SpecDownload == InitDownload /\ [][NextDownload]_vars

(***************************************************************************)
(* WebDAV requests, uploads and size probes                                *)
(***************************************************************************)
DvCommit(result) ==
    /\ dv' = result.x
    /\ dvBackend' = result.backend
    /\ dvFileDAO' = result.fileDAO
    /\ dvEncPathMap' = result.encPathMap
    /\ dvFileSizeCache' = result.fileSizeCache

\* A client sends PROPFIND and handlePropfind answers it.
DvPropfind(davPath) ==
    /\ dv = NoDavExchange
    /\ \E passwdInfo \in {FindByPath(PasswdList, davPath)} :
         \E first \in PropfindAnswers(dvBackend,
                         PropfindRequestPath(dvEncPathMap, davPath, passwdInfo)),
            second \in PropfindAnswers(dvBackend,
                         convertToRealPath(dvEncPathMap, davPath, passwdInfo)) :
           \E result \in {handlePropfind(dvBackend, dvFileDAO, dvEncPathMap,
                                         dvFileSizeCache, davPath, passwdInfo,
                                         first, second)} :
              DvCommit(result)
    /\ UNCHANGED dvUploads
    /\ UNCHANGED otherThanDav

\* A client sends a WebDAV PUT and handlePut answers it.
DvPut(davPath, up) ==
    /\ dv = NoDavExchange
    /\ dvUploads < MaxUploads
    /\ \E resp \in UploadAnswers :
         \E result \in {handlePut(dvBackend, dvFileDAO, dvEncPathMap,
                                  dvFileSizeCache, davPath,
                                  FindByPath(PasswdList, davPath), up, resp,
                                  dvUploads + 2)} :
            DvCommit(result)
    /\ dvUploads' = dvUploads + 1
    /\ UNCHANGED otherThanDav

\* A client sends PUT /api/fs/put and HandleFsPut answers it.
DvFsPut(uploadPath, up) ==
    /\ dv = NoDavExchange
    /\ dvUploads < MaxUploads
    /\ \E resp \in UploadAnswers :
         \E result \in {HandleFsPut(dvBackend, dvFileDAO, dvEncPathMap,
                                    dvFileSizeCache, uploadPath,
                                    FindByPath(PasswdList, uploadPath), up, resp,
                                    dvUploads + 2)} :
            DvCommit(result)
    /\ dvUploads' = dvUploads + 1
    /\ UNCHANGED otherThanDav

\* A client sends a WebDAV GET and handleGet answers it.
DvGet(davPath, r) ==
    /\ dv = NoDavExchange
    /\ \E passwdInfo \in {FindByPath(PasswdList, davPath)} :
         \E obj \in {ObjectAt(dvBackend,
                              convertToRealPath(dvEncPathMap, davPath, passwdInfo))} :
           \E head \in HeadAnswers(obj), resp \in UpstreamAnswers(obj, r.Range) :
             \E result \in {handleGet(dvBackend, dvFileDAO, dvEncPathMap,
                                      dvFileSizeCache, davPath, passwdInfo, r,
                                      obj, resp, head)} :
                DvCommit(result)
    /\ UNCHANGED dvUploads
    /\ UNCHANGED otherThanDav

\* A listing hands a file to the prefetch manager, whose goroutine runs.
DvPrefetch(displayPath) ==
    /\ dv = NoDavExchange
    /\ \E passwdInfo \in {FindByPath(PasswdList, displayPath)} :
         \E encryptedPath \in {convertToRealPath(dvEncPathMap, displayPath,
                                                 passwdInfo)} :
           \E head \in HeadAnswers(ObjectAt(dvBackend, encryptedPath)) :
             \E result \in {PrefetchFileSize(dvBackend, dvFileDAO, dvEncPathMap,
                                             dvFileSizeCache, encryptedPath,
                                             passwdInfo, head)} :
                DvCommit(result)
    /\ UNCHANGED dvUploads
    /\ UNCHANGED otherThanDav

\* A download without a learned strategy walks the fallback chain.
DvFallbackChain(displayPath) ==
    /\ dv = NoDavExchange
    /\ \E passwdInfo \in {FindByPath(PasswdList, displayPath)} :
         \E realPath \in {convertDisplayToRealPath(displayPath, passwdInfo)} :
           \E head \in HeadAnswers(ObjectAt(dvBackend, realPath)) :
             \E result \in {fallbackChainHTTP(dvBackend, dvFileDAO, dvEncPathMap,
                                              dvFileSizeCache, displayPath,
                                              realPath, passwdInfo, head)} :
                DvCommit(result)
    /\ UNCHANGED dvUploads
    /\ UNCHANGED otherThanDav

\* The client has taken the response.
DvDone ==
    /\ dv # NoDavExchange
    /\ dv' = NoDavExchange
    /\ UNCHANGED <<dvBackend, dvFileDAO, dvEncPathMap, dvFileSizeCache, dvUploads>>
    /\ UNCHANGED otherThanDav

NextDav ==
    \/ \E davPath \in PropfindPaths : DvPropfind(davPath)
    \/ \E davPath \in DavFiles, up \in Uploads : DvPut(davPath, up)
    \/ \E uploadPath \in DavFiles, up \in Uploads : DvFsPut(uploadPath, up)
    \/ \E davPath \in DavFiles, r \in DavRequests : DvGet(davPath, r)
    \/ \E displayPath \in ProbedFiles : DvPrefetch(displayPath)
    \/ \E displayPath \in ProbedFiles : DvFallbackChain(displayPath)
    \/ DvDone

SpecDav == InitDav /\ [][NextDav]_vars

(***************************************************************************)
(* The redirect registry at work                                           *)
(***************************************************************************)
\* Five minutes pass; the sweep due at the present instant has run.
RdTick ==
    /\ rd = NoRedirectExchange
    /\ rdSwept = rdNow
    /\ rdNow + SweepInterval <= MaxRedirectClock
    /\ rdNow' = rdNow + SweepInterval
    /\ UNCHANGED <<redirectMap, redirectKeys, rdSwept, rdNano, rdIssued, rd, rdPending, rdLedger, rdOrder>>
    /\ UNCHANGED otherThanRedirect

\* cleanupRedirects: the ticker fires
RdSweep ==
    /\ rd = NoRedirectExchange
    /\ rdSwept < rdNow
    /\ redirectMap' = Sweep(redirectMap, rdNow)
    /\ rdSwept' = rdNow
    /\ UNCHANGED <<redirectKeys, rdNow, rdNano, rdIssued, rd, rdPending, rdLedger, rdOrder>>
    /\ UNCHANGED otherThanRedirect

\* RegisterRedirect, called for a raw URL under rule number rule and not
\* interrupted
RdRegister(url, fileSize, rule) ==
    /\ rd = NoRedirectExchange
    /\ rdPending = {}
    /\ rdNano < MaxRegistrations
    /\ \E reg \in {RegisterRedirect(redirectMap, redirectKeys, url, fileSize,
                                    PasswdList[rule].Password, PasswdList[rule].EncType,
                                    rdNow, rdNano + 1)} :
           /\ redirectMap' = reg.map
           /\ redirectKeys' = reg.keys
           /\ rdLedger' = Store(rdLedger, RedirectKey(url, fileSize, rdNano + 1),
                                reg.map[RedirectKey(url, fileSize, rdNano + 1)])
    /\ rdNano' = rdNano + 1
    /\ rdIssued' = rdIssued \cup {RedirectKey(url, fileSize, rdNano + 1)}
    /\ rdOrder' = Append(rdOrder, RedirectKey(url, fileSize, rdNano + 1))
    /\ UNCHANGED <<rdNow, rdSwept, rdPending, rd>>
    /\ UNCHANGED otherThanRedirect

\* RegisterRedirect, first half: a handler of /api/fs/get takes its key and
\* stores the entry for a raw URL under rule number rule.  Other handlers
\* run before it takes keysMu.
RdStore(url, fileSize, rule) ==
    /\ rd = NoRedirectExchange
    /\ rdNano < MaxRegistrations
    /\ \E map \in {StoreRedirect(redirectMap, url, fileSize,
                                 PasswdList[rule].Password, PasswdList[rule].EncType,
                                 rdNow, rdNano + 1)} :
           /\ redirectMap' = map
           /\ rdLedger' = Store(rdLedger, RedirectKey(url, fileSize, rdNano + 1),
                                map[RedirectKey(url, fileSize, rdNano + 1)])
    /\ rdPending' = rdPending \cup {RedirectKey(url, fileSize, rdNano + 1)}
    /\ rdNano' = rdNano + 1
    /\ UNCHANGED <<redirectKeys, rdNow, rdSwept, rdIssued, rdOrder, rd>>
    /\ UNCHANGED otherThanRedirect

\* RegisterRedirect, second half: under keysMu the key is listed and the
\* oldest keys are evicted; the key is returned.
RdList(key) ==
    /\ rd = NoRedirectExchange
    /\ key \in rdPending
    /\ \E reg \in {ListRedirect(redirectMap, redirectKeys, key)} :
           /\ redirectMap' = reg.map
           /\ redirectKeys' = reg.keys
    /\ rdPending' = rdPending \ {key}
    /\ rdIssued' = rdIssued \cup {key}
    /\ rdOrder' = Append(rdOrder, key)
    /\ UNCHANGED <<rdNow, rdSwept, rdNano, rdLedger, rd>>
    /\ UNCHANGED otherThanRedirect

\* GET /redirect/<key>
RdHandleRedirect(key, r) ==
    /\ rd = NoRedirectExchange
    /\ key \in rdIssued \cup {MissingKey, UnknownKey}
    /\ \E x \in HandleRedirect(redirectMap, key, r) :
           rd' = [key |-> key, info |-> Load(redirectMap, key), at |-> rdNow,
                  x |-> x]
    /\ UNCHANGED <<redirectMap, redirectKeys, rdNow, rdSwept, rdNano, rdIssued, rdPending, rdLedger, rdOrder>>
    /\ UNCHANGED otherThanRedirect

\* The client has taken the response.
RdDone ==
    /\ rd # NoRedirectExchange
    /\ rd' = NoRedirectExchange
    /\ UNCHANGED <<redirectMap, redirectKeys, rdNow, rdSwept, rdNano, rdIssued, rdPending, rdLedger, rdOrder>>
    /\ UNCHANGED otherThanRedirect

NextRedirect ==
    \/ RdTick
    \/ RdSweep
    \/ \E url \in RedirectURLs, fileSize \in RedirectSizes, rule \in RedirectRules :
           RdRegister(url, fileSize, rule)
    \/ \E key \in RedirectKeys, r \in RedirectRequests : RdHandleRedirect(key, r)
    \/ RdDone

SpecRedirect == InitRedirect /\ [][NextRedirect]_vars

\* The registry under concurrent registrations: every RegisterRedirect is
\* two steps, and other registrations and the sweeper run between them.
NextRegistry ==
    \/ RdTick
    \/ RdSweep
    \/ \E url \in RedirectURLs, fileSize \in RedirectSizes, rule \in RedirectRules :
           RdStore(url, fileSize, rule)
    \/ \E key \in RedirectKeys : RdList(key)

SpecRegistry == InitRedirect /\ [][NextRegistry]_vars

\* The outcomes recorded for one strategy, oldest first.
OutcomesOf(history, strategyType) ==
    SelectSeq(history, LAMBDA o : o.strategy = strategyType)

\* The position in history of the n-th most recent success (0 when there are
\* fewer than n).
NthLastSuccess(history, n) ==
    LET P == {i \in 1..Len(history) : history[i].ok} IN
    IF Cardinality(P) < n THEN 0
    ELSE CHOOSE p \in P : Cardinality({q \in P : q >= p}) = n

\* No three failures in a row.
NoThreeFailures(outcomes) ==
    \A i \in 1..(Len(outcomes) - 2) :
        outcomes[i].ok \/ outcomes[i + 1].ok \/ outcomes[i + 2].ok

ReachedCipher(x) == RuleMatched(x) /\ x.r.urlOK /\ ~x.resp.err

\* The rule's encryption type has a registered cipher.
CipherRegistered(x) == x.passwdInfo.EncType \in registry \cup {""}

\* ParseRange refuses the request's Range header for the size the download
\* resolved.
RangeRefused(x) ==
    ParseRange(x.r.Range, resolveFileSize(x.cachedSize, x.resp)).err # NoRangeError

\* C3 as claimed: when the Range header of a download on a rule-matched path
\* is malformed or unsatisfiable, the request ends in 416 and no cipher
\* instance was ever created for it.
C3_RangeErrorEndsIn416WithoutCipher ==
    (ReachedCipher(dl) /\ Undisturbed(dl) /\ CipherRegistered(dl)
        /\ RangeRefused(dl))
        => (dl.final.status = 416 /\ ~dl.out.flowEnc.ok)

\* The header lists more than one range, each satisfiable for the object.
ListsSeveralRanges(x) ==
    /\ ParseRange(x.r.Range, x.obj.size).err = NoRangeError
    /\ Len(ParseRange(x.r.Range, x.obj.size).Ranges) > 1

\* C4 as claimed: a download whose Range header lists more than one range
\* is answered 200 with Content-Length equal to the total size, and the body
\* is the complete plaintext decrypted from offset 0.
C4_MultiRangeCollapsesToFullContent ==
    (RuleMatched(dl) /\ Undisturbed(dl) /\ CipherRegistered(dl)
        /\ ListsSeveralRanges(dl))
        => (/\ dl.final.status = 200
            /\ dl.final.contentLength = dl.obj.size
            /\ DeliversPlaintext(dl, 0, dl.obj.size))

\* C8 as claimed: once the status line and headers of a decrypted download
\* have been written, a later read or write error adds nothing to the
\* response: no status, no error body.
C8_NothingWrittenAfterLateError ==
    (RuleMatched(dl) /\ dl.out.w.wroteHeader /\ dl.out.err # None)
        => dl.final = dl.out.w

AbsentOrExpired(e) ==
    \/ e.info = NoRedirect
    \/ e.at > e.info.ExpiresAt

\* C2 as claimed: GET /redirect/<key> is answered 404 whenever the key is
\* not in the registry or its entry's expiresAt has passed, also between the
\* expiry and the next sweep, and then nothing is fetched or streamed from
\* the stored URL.
C2_AbsentOrExpiredKeyIs404 ==
    (rd.x.handler = "HandleRedirect" /\ rd.key # MissingKey /\ AbsentOrExpired(rd))
        => (/\ rd.x.final.status = 404
            /\ ~rd.x.out.fetched
            /\ rd.x.final.len = 0)

(***************************************************************************)
(* Stale caches, uploads without a length, HEAD probes and PROPFIND retries *)
(***************************************************************************)
\* The object is stored under the key of its own size, as an upload with a
\* truthful Content-Length leaves it.
KeyedForItsSize(obj) == obj.key.ok /\ obj.key.fileSize = obj.size

\* C1 as claimed: whatever PROPFINDs, PUTs and GETs went before, a WebDAV GET
\* that takes its size from the FileInfo cache delivers exactly the plaintext
\* last uploaded to the path (a non-empty upload with a truthful
\* Content-Length): status 200, the object's length, its bytes.
C1_GetDeliversLastUploadedPlaintext ==
    (/\ dv.handler = "handleGet"
     /\ RuleMatched(dv)
     /\ ~dv.head.sent
     /\ Undisturbed(dv)
     /\ dv.r.Range = HdrNone
     /\ dv.obj.size > 0
     /\ KeyedForItsSize(dv.obj))
        => (/\ dv.final.status = 200
            /\ dv.final.contentLength = dv.obj.size
            /\ DeliversPlaintext(dv, 0, dv.obj.size))

\* C5 as claimed: an upload on a rule-matched path whose Content-Length is 0
\* or missing is answered 400, and no cipher is created for it.
C5_UploadWithoutLengthIs400 ==
    (/\ dv.handler \in {"handlePut", "HandleFsPut"}
     /\ RuleMatched(dv)
     /\ dv.upload.ContentLength \in {<<>>, <<"0">>})
        => (dv.final.status = 400 /\ ~dv.out.flowEnc.ok)

\* C7 as claimed: on every probing path, the size of a HEAD response that is
\* not 200, is text/html or is below 1024 is neither stored in the file-size
\* cache nor handed on as a cipher's total file size.
C7_RejectedHeadSizeNeverUsed ==
    HeadRejectable(dv.head) => (dv.stored = 0 /\ dv.cachedSize = 0)

\* C10 as claimed: one client PROPFIND makes at most two upstream PROPFINDs,
\* and the second is sent exactly when the first returned 404 under a rule
\* with encName on.
C10_RetryExactlyOn404UnderEncName ==
    dv.handler = "handlePropfind"
        => (/\ Len(dv.upstream) \in {1, 2}
            /\ (Len(dv.upstream) = 2)
                  <=> (/\ ~dv.upstream[1].err
                       /\ dv.upstream[1].StatusCode = 404
                       /\ dv.passwdInfo.Enable
                       /\ dv.passwdInfo.EncName))

\* C10 amended: one client PROPFIND makes at most two upstream PROPFINDs, and
\* the second is sent exactly when the first returned 404 under a rule with
\* encName on and the requested path has a base name other than "/" and ".".
C10_RetryOn404UnderEncNameWithBaseName ==
    dv.handler = "handlePropfind"
        => (/\ Len(dv.upstream) \in {1, 2}
            /\ (Len(dv.upstream) = 2)
                  <=> (/\ ~dv.upstream[1].err
                       /\ dv.upstream[1].StatusCode = 404
                       /\ dv.passwdInfo.Enable
                       /\ dv.passwdInfo.EncName
                       /\ Base(dv.path) \notin {"", "/", "."}))

\* C10 witness: a PROPFIND for a file under the encName rule was answered 404,
\* was sent again for the encrypted name and that time found the file.
C10_Witness ==
    /\ dv.handler = "handlePropfind"
    /\ dv.passwdInfo.EncName
    /\ Len(dv.upstream) = 2
    /\ dv.upstream[1].StatusCode = 404
    /\ dv.upstream[2].StatusCode = 207
    /\ dv.upstream[2].path # dv.upstream[1].path
    /\ dv.final.status = 207

(***************************************************************************)
(* The rule resolver at work                                               *)
(***************************************************************************)
\* Time passes.
PwTick ==
    /\ pw = NoLookup
    /\ pwNow + ResolverClockStep <= MaxResolverClock
    /\ pwNow' = pwNow + ResolverClockStep
    /\ UNCHANGED <<pwList, pwCache, pwOverrode, pw>>
    /\ UNCHANGED otherThanResolver

\* storage.Cache.cleanup, the cache's janitor
PwCleanup ==
    /\ pw = NoLookup
    /\ pwCache' = CacheCleanup(pwCache, pwNow)
    /\ pwCache' # pwCache
    /\ UNCHANGED <<pwList, pwNow, pwOverrode, pw>>
    /\ UNCHANGED otherThanResolver

\* APIHandler.SaveAlistConfig: the administrator saves another rule list.
PwSaveAlistConfig(server) ==
    /\ pw = NoLookup
    /\ server # pwList
    /\ pwList' = UpdateAlistServer(pwList, server)
    /\ UNCHANGED <<pwCache, pwNow, pwOverrode, pw>>
    /\ UNCHANGED otherThanResolver

\* A handler resolves the rule of its path with PasswdDAO.FindByPath.
PwFindByPath(urlPath) ==
    /\ pw = NoLookup
    /\ \E result \in {FindByPathCached(pwCache, pwList, urlPath, pwNow,
                                        CacheGet(pwCache, urlPath, pwNow))} :
          /\ pwCache' = result.cache
          /\ pw' = [op |-> "FindByPath", path |-> urlPath, found |-> result.found,
                    rule |-> result.rule, hit |-> result.hit]
    /\ UNCHANGED <<pwList, pwNow, pwOverrode>>
    /\ UNCHANGED otherThanResolver

\* A handler resolves the rule of its path with PasswdDAO.PathFindPasswd.
PwPathFindPasswd(urlPath) ==
    /\ pw = NoLookup
    /\ \E result \in {PathFindPasswd(pwList, urlPath)} :
          /\ pwList' = result.list
          /\ pw' = [op |-> "PathFindPasswd", path |-> urlPath, found |-> result.found,
                    rule |-> result.rule, hit |-> FALSE]
          /\ pwOverrode' = (pwOverrode \/ (result.found /\ result.rule.Password = "pw3"))
    /\ UNCHANGED <<pwCache, pwNow>>
    /\ UNCHANGED otherThanResolver

\* The handler has used the rule.
PwDone ==
    /\ pw # NoLookup
    /\ pw' = NoLookup
    /\ UNCHANGED <<pwList, pwCache, pwNow, pwOverrode>>
    /\ UNCHANGED otherThanResolver

NextResolver ==
    \/ PwTick
    \/ PwCleanup
    \/ \E server \in RuleLists : PwSaveAlistConfig(server)
    \/ \E urlPath \in ResolverPaths : PwFindByPath(urlPath)
    \/ \E urlPath \in ResolverPaths : PwPathFindPasswd(urlPath)
    \/ PwDone

SpecResolver == InitResolver /\ [][NextResolver]_vars

(***************************************************************************)
(* Upstream requests per client request                                    *)
(***************************************************************************)
\* C11: size resolution for one download sends at most one HEAD probe for the
\* file, also when a learned head_request strategy fails and the fallback
\* chain then runs (scReq[r].heads counts the probes of r's latest request).
C11_AtMostOneHeadProbePerRequest ==
    \A r \in Reqs : scReq[r].heads <= 1

(***************************************************************************)
(* The rule resolver                                                       *)
(***************************************************************************)
\* C12: the rule resolved for a path is a function of the current rule list
\* and the path only: every FindByPath returns what a fresh first-match scan
\* of the rules now in force returns, whatever was looked up before and
\* whatever was saved in between.
C12_LookupIsAFreshScan ==
    pw.op = "FindByPath" =>
        /\ pw.found = (FirstMatch(pwList, pw.path) # 0)
        /\ pw.rule = FindByPath(pwList, pw.path)

\* The rule handed out is the stored rule, but for a folder's password.
SameRule(rule, stored) ==
    rule = [stored EXCEPT !.Password = rule.Password, !.EncType = rule.EncType]

\* C13: the resolver returns the first rule, in configured order, that is
\* enabled and has a matching pattern: never a disabled rule, never a later
\* rule when an earlier enabled one matches, and no rule only when none does.
C13_ReturnsFirstEnabledMatch ==
    pw.op # None =>
        IF pw.found
        THEN \E i \in 1..Len(pwList) :
                /\ SameRule(pw.rule, pwList[i])
                /\ pwList[i].Enable
                /\ PathExec(pwList[i].EncPath, pw.path)
                /\ \A j \in 1..(i - 1) :
                      ~(pwList[j].Enable /\ PathExec(pwList[j].EncPath, pw.path))
        ELSE \A i \in 1..Len(pwList) :
                ~(pwList[i].Enable /\ PathExec(pwList[i].EncPath, pw.path))

\* C14: a path with a folder-password segment resolves to the decoded
\* password and encType for that lookup only: the stored rules stay the saved
\* ones, and a lookup of a path without such a segment returns a rule with
\* its own password and encType.
C14_FolderPasswordStaysWithItsRequest ==
    /\ pwList \in RuleLists
    /\ (pw.op # None /\ pw.found /\ NoFolderSegment(pw.path))
           => pw.rule \in {RuleA, RuleB}
    /\ (/\ pw.op = "PathFindPasswd" /\ pw.found /\ ~NoFolderSegment(pw.path)
        /\ pwList[FirstMatch(pwList, pw.path)] = RuleA)
           => pw.rule = [RuleA EXCEPT !.Password = "pw3", !.EncType = EncTypeRC4MD5]

\* A folder password was handed out, and a later lookup of a path without one
\* returns the rule as it is stored.
C14_Witness ==
    /\ pwOverrode
    /\ pw.op = "PathFindPasswd"
    /\ pw.path = <<"enc", "a.bin">>
    /\ pw.found
    /\ pw.rule = RuleA
    /\ pwList[1] = RuleA

(***************************************************************************)
(* The numbers of a ranged download                                        *)
(***************************************************************************)
\* What a client reads in a Content-Range of the form "bytes start-end/total".
ReadContentRange(value) ==
    LET halves == Split(TrimPrefix(value, <<"b", "y", "t", "e", "s", " ">>), "/")
        ends   == Split(halves[1], "-")
    IN [start |-> ParseInt(ends[1]).value, end |-> ParseInt(ends[2]).value,
        total |-> ParseInt(halves[2]).value]

\* The proxy accepted the Range header as a single range and answered 206
\* through the cipher.
AcceptedSingleRange(x) == x.out.flowEnc.ok /\ x.final.status = 206

\* C15: for every Range header accepted as a single range on a file of size
\* totalSize, the emitted Content-Range start-end/total and Content-Length
\* satisfy total = totalSize, end - start + 1 = Content-Length <= totalSize
\* and 0 <= start <= end < totalSize, for the bounded, open-ended and suffix
\* forms, ends and suffixes larger than the file included.
C15_EmittedRangeLiesWithinTheFile ==
    AcceptedSingleRange(dl) =>
        LET cr == ReadContentRange(dl.final.contentRange)
            totalSize == dl.out.flowEnc.fileSize
        IN /\ cr.total = totalSize
           /\ 0 <= cr.start /\ cr.start <= cr.end /\ cr.end < totalSize
           /\ cr.end - cr.start + 1 = dl.final.contentLength
           /\ dl.final.contentLength <= totalSize

\* An end larger than the file was accepted and clamped: bytes=10-5000 on a
\* file of 100 bytes is answered with bytes 10-99/100.
C15_Witness ==
    /\ AcceptedSingleRange(dl)
    /\ dl.r.Range = HdrClamped
    /\ dl.out.flowEnc.fileSize = 100
    /\ dl.final.contentRange = ContentRangeValue(10, 99, 100)
    /\ dl.final.contentLength = 90

\* The request asks for one range, and it starts at or beyond the end of the
\* object.
StartsBeyondTheFile(x) ==
    /\ Len(Split(x.r.Range, ",")) = 1
    /\ ParseRange(x.r.Range, x.obj.size).err = "requested range not satisfiable"

\* C16: a single-range request whose start is at or beyond the file's total
\* size is answered 416 with Content-Range: bytes */<total size> and an empty
\* body.
C16_RangeBeyondTheFileIs416 ==
    (/\ dl.handler = "HandleDownload" /\ ReachedCipher(dl) /\ Undisturbed(dl)
     /\ CipherRegistered(dl) /\ StartsBeyondTheFile(dl))
        => (/\ dl.final.status = 416
            /\ dl.final.contentRange = UnsatisfiedRangeValue(dl.obj.size)
            /\ dl.final.len = 0
            /\ dl.final.textLen = 0)
(***************************************************************************)
(* Downloads with their upstream requests, under either revision of        *)
(* proxy/stream.go                                                         *)
(***************************************************************************)
\* HandleDownload with ProxyDownloadDecrypt writing its own headers
FtHandleDownload(displayPath, r, headers) ==
    /\ ft = NoFetch
    /\ \E obj \in {dlBackend[DownloadTarget(PasswdList, displayPath)]} :
         \E resp \in UpstreamAnswers(obj, r.Range) :
           ft' = Fetched("computing", HeaderNames(r, headers),
                         DownloadRequestHeaders(HeaderNames(r, headers)),
                         HandleDownload(PasswdList, dlFileDAO, displayPath, r, obj, resp))
    /\ UNCHANGED otherThanFetch

\* HandleDownload with proxy/stream.go's ProxyDownloadDecrypt
FtHandleDownloadCopying(displayPath, r, headers) ==
    /\ ft = NoFetch
    /\ \E obj \in {dlBackend[DownloadTarget(PasswdList, displayPath)]} :
         \E resp \in UpstreamAnswers(obj, r.Range) :
           ft' = Fetched("copying", HeaderNames(r, headers),
                         CopiedRequestHeaders(HeaderNames(r, headers)),
                         HandleDownloadCopying(PasswdList, dlFileDAO, displayPath,
                                               r, obj, resp))
    /\ UNCHANGED otherThanFetch

FtDone ==
    /\ ft # NoFetch
    /\ ft' = NoFetch
    /\ UNCHANGED otherThanFetch

NextFetch ==
    \/ \E displayPath \in FetchPaths, r \in FetchRequests, headers \in ClientHeaders :
           FtHandleDownload(displayPath, r, headers)
    \/ \E displayPath \in FetchPaths, r \in FetchRequests, headers \in ClientHeaders :
           FtHandleDownloadCopying(displayPath, r, headers)
    \/ FtDone

SpecFetch == InitFetch /\ [][NextFetch]_vars

(***************************************************************************)
(* C17: on every decrypted download the proxy computes Content-Length and  *)
(* Content-Range itself: a 206 carries "bytes start-end/total" of the      *)
(* requested range with Content-Length end-start+1, a 200 carries the      *)
(* total size as Content-Length; the upstream values are not passed on.    *)
(***************************************************************************)
DecryptedDownload(x) ==
    x.handler = "HandleDownload" /\ x.out.flowEnc.ok /\ x.final.status \in {200, 206}

ComputedHeaders(x, total, rangeReq) ==
    IF x.final.status = 206
    THEN /\ rangeReq.err = NoRangeError
         /\ Len(rangeReq.Ranges) = 1
         /\ x.final.contentRange = ContentRangeValue(rangeReq.Ranges[1].Start,
                                                     rangeReq.Ranges[1].End, total)
         /\ x.final.contentLength = ContentLength(rangeReq.Ranges[1])
    ELSE /\ x.final.contentLength = total
         /\ x.final.contentRange = <<>>

C17_LengthAndRangeComputedByTheProxy ==
    DecryptedDownload(ft.x) =>
        ComputedHeaders(ft.x, ft.x.out.flowEnc.fileSize,
                        ParseRange(ft.x.r.Range, ft.x.out.flowEnc.fileSize))

(***************************************************************************)
(* C18: the upstream request of a download on a rule-matched path carries  *)
(* the client's headers except Host, Content-Length, Content-Type and      *)
(* Accept-Encoding; Accept-Encoding is never sent upstream.                *)
(***************************************************************************)
C18_UpstreamRequestLeavesOutFourHeaders ==
    (RuleMatched(ft.x) /\ ft.x.out.fetched) =>
        /\ ft.sent = ft.headers \ ProbeSkipped
        /\ "Accept-Encoding" \notin ft.sent

(***************************************************************************)
(* C19: whenever no registration is in progress the registry resolves at   *)
(* most maxRedirectEntries keys, and the keys it lists are the most        *)
(* recently listed ones in their order: a registration that exceeds the    *)
(* bound has dropped the oldest.  Registrations run concurrently with each *)
(* other and with the sweeper.                                             *)
(***************************************************************************)
\* The last n elements of a sequence
LastN(seq, n) == SubSeq(seq, IF Len(seq) > n THEN Len(seq) - n + 1 ELSE 1, Len(seq))

Listed(keys) == {keys[i] : i \in 1..Len(keys)}

C19_RegistryStaysWithinItsBound ==
    rdPending = {} =>
        /\ Cardinality(DOMAIN redirectMap) <= maxRedirectEntries
        /\ redirectKeys = LastN(rdOrder, maxRedirectEntries)
        /\ DOMAIN redirectMap \subseteq Listed(redirectKeys)

\* Three registrations overlapped: the second was listed after the third,
\* the first was evicted.
C19_Witness ==
    /\ rdPending = {}
    /\ rdNano = MaxRegistrations
    /\ Len(rdOrder) = MaxRegistrations
    /\ rdOrder[2][3] > rdOrder[3][3]
    /\ rdOrder[1] \notin DOMAIN redirectMap
    /\ Cardinality(DOMAIN redirectMap) = maxRedirectEntries

(***************************************************************************)
(* C20: a GET /redirect/<key> for a key that /api/fs/get handed out, made  *)
(* before one hour has passed and before maxRedirectEntries later          *)
(* registrations, is never answered 404 and is served from the registered  *)
(* URL with exactly the registered file size, password and encType.        *)
(***************************************************************************)
\* The registrations listed after key
LaterRegistrations(key) ==
    Len(rdOrder) - (CHOOSE i \in 1..Len(rdOrder) : rdOrder[i] = key)

\* The exchange asked for a key in its first hour, with fewer than
\* maxRedirectEntries registrations after it.
FreshKey(e) ==
    /\ e.x.handler = "HandleRedirect"
    /\ e.key \in rdIssued
    /\ e.at < rdLedger[e.key].ExpiresAt
    /\ LaterRegistrations(e.key) < maxRedirectEntries

ServedAs(e, registered) ==
    /\ e.x.final.status # 404
    /\ e.info = registered
    /\ e.x.obj = RedirectObject(registered.URL)
    /\ e.x.cachedSize = registered.FileSize
    /\ e.x.passwdInfo.Password = registered.Password
    /\ e.x.passwdInfo.EncType = registered.EncType
    /\ (~e.x.resp.err) =>
           /\ e.x.out.flowEnc.fileSize = registered.FileSize
           /\ e.x.out.flowEnc.password = registered.Password

C20_FreshKeyIsServedAsRegistered == FreshKey(rd) => ServedAs(rd, rdLedger[rd.key])

\* A key of the second rule, asked for 55 minutes after its registration
\* with one registration after it, is served.
C20_Witness ==
    /\ FreshKey(rd)
    /\ rd.at = rdLedger[rd.key].ExpiresAt - SweepInterval
    /\ LaterRegistrations(rd.key) = maxRedirectEntries - 1
    /\ rd.info.Password = PasswdList[2].Password
    /\ rd.x.final.status = 200
    /\ rd.x.out.flowEnc.fileSize = 100

(***************************************************************************)
(* Directory listings with their decrypt workers                           *)
(***************************************************************************)
\* POST /api/fs/list: the backend's answer is scanned; a listing without
\* encrypted names is folded and answered at once.
LsList(dirPath, listing) ==
    /\ ls = NoListing
    /\ ls' = Scanned(PasswdList, dirPath, listing)
    /\ UNCHANGED otherThanList

\* The handler takes the semaphore and starts the goroutine of the next task.
LsSpawn ==
    /\ ls.pc = "spawning"
    /\ ls.spawned < Len(ls.tasks)
    /\ Acquire(Cardinality(InFlight(ls)))
    /\ ls' = [ls EXCEPT !.spawned = @ + 1,
                        !.workers = Append(@, "running"),
                        !.peak = IF Cardinality(InFlight(ls)) + 1 > @
                                 THEN Cardinality(InFlight(ls)) + 1 ELSE @]
    /\ UNCHANGED otherThanList

\* A goroutine has decoded its name and sends the result.
LsSend(k) ==
    /\ k \in 1..Len(ls.workers)
    /\ ls.workers[k] = "running"
    /\ ls' = [ls EXCEPT !.workers[k] = "sent",
                        !.results = Append(@, decryptResult(ls.tasks[k]))]
    /\ UNCHANGED otherThanList

\* The goroutine's deferred release of the semaphore.
LsRelease(k) ==
    /\ k \in 1..Len(ls.workers)
    /\ ls.workers[k] = "sent"
    /\ ls' = [ls EXCEPT !.workers[k] = "released"]
    /\ UNCHANGED otherThanList

\* All goroutines started, the handler takes the next result; after the
\* last one it folds the covers and answers.
LsCollect ==
    /\ ls.pc = "spawning"
    /\ ls.spawned = Len(ls.tasks)
    /\ ls.results # <<>>
    /\ \E content \in {ApplyResult(ls.content, Head(ls.results))} :
         ls' = [ls EXCEPT
                   !.content = content,
                   !.results = Tail(@),
                   !.order = Append(@, Head(ls.results).index),
                   !.pc = IF Len(ls.order) + 1 = Len(ls.tasks)
                          THEN "responded" ELSE "spawning",
                   !.response = IF Len(ls.order) + 1 = Len(ls.tasks)
                                THEN FoldCovers(ls.dirPath, content, ls.coverNameMap)
                                ELSE <<>>]
    /\ UNCHANGED otherThanList

\* The client has the response and every goroutine has ended.
LsDone ==
    /\ ls.pc = "responded"
    /\ InFlight(ls) = {}
    /\ ls' = NoListing
    /\ UNCHANGED otherThanList

NextList ==
    \/ \E dirPath \in ListedDirs : \E listing \in Listings(dirPath) : LsList(dirPath, listing)
    \/ LsSpawn
    \/ \E k \in 1..MaxListing : LsSend(k)
    \/ \E k \in 1..MaxListing : LsRelease(k)
    \/ LsCollect
    \/ LsDone

SpecList == InitList /\ [][NextList]_vars

(***************************************************************************)
(* C21: in a listing under a rule with encName on, an entry whose name     *)
(* decodes is returned with the decoded name and with path set to the      *)
(* listed directory joined with the decoded name.                          *)
(***************************************************************************)
\* The entry's name is what its listed name decoded to.
DecodedEntry(e) ==
    /\ e.path # <<>>
    /\ NeedsDecrypt(PasswdList, Dir(e.path), [e EXCEPT !.name = Base(e.path)])
    /\ ~HasPrefix(e.name, OrigPrefix)

C21_DecodedEntryHasDecodedPath ==
    ls.pc = "responded" =>
        \A i \in 1..Len(ls.response) :
            DecodedEntry(ls.response[i]) =>
                /\ ls.response[i].name =
                       ConvertShowName(FindByPath(PasswdList, ls.dirPath).Password,
                                       FindByPath(PasswdList, ls.dirPath).EncType,
                                       Base(ls.response[i].path))
                /\ ls.response[i].path = Append(ls.dirPath, ls.response[i].name)

(***************************************************************************)
(* C22: in every listing response each image entry whose stem equals the   *)
(* stem of a video entry is absent and that video entry carries            *)
(* thumb = /d<dir>/<cover name>, under encName on as well as off, the      *)
(* names compared being the decrypted ones.                                *)
(***************************************************************************)
\* Image m is the cover of video v by their names as shown.
CoverOf(m, v) ==
    /\ ~m.is_dir /\ m.type = TypeImage
    /\ ~v.is_dir /\ v.type = TypeVideo
    /\ Stem(m.name) = Stem(v.name)

Folded(l, m, v) ==
    /\ \A i \in 1..Len(l.response) : l.response[i].path # m.path
    /\ \A i \in 1..Len(l.response) :
           l.response[i].path = v.path =>
               l.response[i].thumb \in {<<"d">> \o l.dirPath \o <<m.name>>,
                                        <<"d">> \o l.dirPath \o <<Base(m.path)>>}

C22_CoversAreFoldedIntoTheirVideos ==
    ls.pc = "responded" =>
        \A i, j \in 1..Len(ls.content) :
            CoverOf(ls.content[i], ls.content[j]) =>
                Folded(ls, ls.content[i], ls.content[j])

(***************************************************************************)
(* C24: the listing response is the same for every completion order of     *)
(* the decrypt workers: entries keep the backend's order, entry i's name   *)
(* is the decryption of entry i's own name, and the covers are folded      *)
(* after every result has been applied.                                    *)
(***************************************************************************)
C24_ResponseIndependentOfCompletionOrder ==
    ls.pc = "responded" =>
        ls.response = FsListResponse(PasswdList, ls.dirPath, ls.listing)

\* Three names were decrypted, the result of the first task arrived last,
\* and a video got its cover.
C24_Witness ==
    /\ ls.pc = "responded"
    /\ Len(ls.tasks) = 3
    /\ ls.order = <<2, 3, 1>>
    /\ \E i \in 1..Len(ls.response) : ls.response[i].thumb # <<>>

(***************************************************************************)
(* C25: at no time are more than maxWorkers name-decrypt tasks of one      *)
(* listing request in flight, however many entries the listing has.        *)
(***************************************************************************)
C25_AtMostMaxWorkersInFlight ==
    /\ Cardinality(InFlight(ls)) <= maxWorkers
    /\ ls.peak <= maxWorkers

\* A listing with more tasks than the pool admits has filled the pool and
\* has been answered.
C25_Witness ==
    /\ ls.pc = "responded"
    /\ Len(ls.tasks) > maxWorkers
    /\ ls.peak = maxWorkers

(***************************************************************************)
(* The mutating operations of the API (HandleFsRemove, handleCopyOrMove):  *)
(* the names they forward to the backend.                                  *)
(***************************************************************************)
\* handleCopyOrMove, the loop body: the name forwarded for one display name
CopyOrMoveName(passwdInfo, name) ==
    IF IsOriginalFile(name) THEN StripOriginalPrefix(name)
    ELSE LET ext == IF passwdInfo.EncSuffix = "" THEN Ext(name)
                    ELSE passwdInfo.EncSuffix
         IN EncodeName(passwdInfo.Password, passwdInfo.EncType, name) \o ext

\* handleCopyOrMove: the names array of the forwarded request
handleCopyOrMove(passwdList, srcDir, names) ==
    LET r == PathFindPasswd(passwdList, srcDir)
    IN IF r.found /\ r.rule.EncName
       THEN [i \in 1..Len(names) |-> CopyOrMoveName(r.rule, names[i])]
       ELSE names

\* HandleFsRemove: the names array of the forwarded request, the display
\* names followed by their real names
HandleFsRemove(passwdList, dir, names) ==
    LET r == PathFindPasswd(passwdList, dir)
    IN IF r.found /\ r.rule.EncName
       THEN names \o [i \in 1..Len(names) |-> ToRealName(r.rule, names[i])]
       ELSE names

\* The rules with and without an encSuffix on the rule that encrypts names
SuffixedPasswdList == [PasswdList EXCEPT ![2].EncSuffix = ".bin"]

PasswdLists == {PasswdList, SuffixedPasswdList}

\* Display names a client sends: with and without an extension, one marked
\* as not decodable, one with an underscore
DisplayNames == {"video.mp4", "notes", "orig_raw.txt", "a_b.txt"}

MaxNames == 2

NameLists == UNION {[1..n -> DisplayNames] : n \in 1..MaxNames}

MutatedDirs == {<<"encn">>, <<"enc">>, <<"plain">>}

NmCopyOrMove(passwdList, srcDir, names) ==
    /\ calc = NoCall
    /\ calc' = [op |-> "copyOrMove", passwdList |-> passwdList, dir |-> srcDir,
                names |-> names,
                forwarded |-> handleCopyOrMove(passwdList, srcDir, names)]
    /\ UNCHANGED otherThanCalc

NmRemove(passwdList, dir, names) ==
    /\ calc = NoCall
    /\ calc' = [op |-> "remove", passwdList |-> passwdList, dir |-> dir,
                names |-> names,
                forwarded |-> HandleFsRemove(passwdList, dir, names)]
    /\ UNCHANGED otherThanCalc

CalcDone ==
    /\ calc # NoCall
    /\ calc' = NoCall
    /\ UNCHANGED otherThanCalc

NextNames ==
    \/ \E passwdList \in PasswdLists, dir \in MutatedDirs, names \in NameLists :
           \/ NmCopyOrMove(passwdList, dir, names)
           \/ NmRemove(passwdList, dir, names)
    \/ CalcDone

SpecNames == InitCalc /\ [][NextNames]_vars

(***************************************************************************)
(* C23: a move or copy under a rule with encName on forwards a name with   *)
(* the orig_ prefix with the prefix stripped and every other display name  *)
(* as its real name, the same real name that remove forwards for it.       *)
(***************************************************************************)
\* The real name remove forwards for the i-th of the names
RemovedAs(passwdList, dir, names, i) ==
    HandleFsRemove(passwdList, dir, names)[Len(names) + i]

C23_MoveAndCopyForwardRealNames ==
    (/\ calc.op = "copyOrMove"
     /\ PathFindPasswd(calc.passwdList, calc.dir).found
     /\ PathFindPasswd(calc.passwdList, calc.dir).rule.EncName)
    => \A i \in 1..Len(calc.names) :
           calc.forwarded[i] =
               IF IsOriginalFile(calc.names[i])
               THEN StripOriginalPrefix(calc.names[i])
               ELSE RemovedAs(calc.passwdList, calc.dir, calc.names, i)

(***************************************************************************)
(* The file-name codec byte by byte (encryption.MixBase64, CRC6,           *)
(* EncodeName, DecodeName, ConvertShowName).  A Go string is the sequence  *)
(* of its bytes.                                                           *)
(***************************************************************************)
\* The characters the names and keys of the model are written in, in runs
\* of consecutive ASCII codes: from 32, from 43, from 65, 95, from 97
AsciiRuns ==
    << [from |-> 32, chars |-> " !"],
       [from |-> 43, chars |-> "+,-./0123456789"],
       [from |-> 65, chars |-> "ABCDEFGHIJKLMNOPQRSTUVWXYZ"],
       [from |-> 95, chars |-> "_"],
       [from |-> 97, chars |-> "abcdefghijklmnopqrstuvwxyz{|}~"] >>

\* the byte of a one-character string
ByteOf(c) ==
    LET r == CHOOSE k \in 1..Len(AsciiRuns) :
                 \E i \in 1..Len(AsciiRuns[k].chars) :
                     SubSeq(AsciiRuns[k].chars, i, i) = c
        i == CHOOSE i \in 1..Len(AsciiRuns[r].chars) :
                 SubSeq(AsciiRuns[r].chars, i, i) = c
    IN AsciiRuns[r].from + i - 1

\* []byte(s)
Bytes(s) == SubSeq([i \in 1..Len(s) |-> ByteOf(SubSeq(s, i, i))], 1, Len(s))

\* bit k of a byte
Bit(a, k) == (a \div (2 ^ k)) % 2

\* a | b and a ^ b on values below 512
BitOr(a, b) ==
    LET or(k) == IF Bit(a, k) = 1 \/ Bit(b, k) = 1 THEN 2 ^ k ELSE 0
    IN or(0) + or(1) + or(2) + or(3) + or(4) + or(5) + or(6) + or(7) + or(8)

BitXor(a, b) ==
    LET xor(k) == IF Bit(a, k) # Bit(b, k) THEN 2 ^ k ELSE 0
    IN xor(0) + xor(1) + xor(2) + xor(3) + xor(4) + xor(5) + xor(6) + xor(7) + xor(8)

RECURSIVE SumOf(_)
SumOf(data) == IF data = <<>> THEN 0 ELSE Head(data) + SumOf(Tail(data))

sourceChars == Bytes("ABCDEFGHIJKLMNOPQRSTUVWXYZabcdefghijklmnopqrstuvwxyz0123456789-~+")

\* The sequence of the n values f[1], ..., f[n]
AsSeq(f, n) == SubSeq(f, 1, n)

\* sha256.Sum256 is kept as a stand-in digest: 32 bytes, each depending on
\* the bytes of the input and on their number.
Sha256(data) ==
    AsSeq([i \in 1..32 |-> (SumOf(data) * (2 * i + 1) + 31 * i * i + Len(data)) % 256],
          32)

\* initKSA, one round of the shuffle: st holds the loop's i and j and sbox
\* (sbox[i] of the code is the element i + 1 of the sequence)
KsaRound(st, K) ==
    LET j2 == (st.j + st.sbox[st.i + 1] + K[st.i + 1]) % Len(sourceChars)
    IN [sbox |-> [st.sbox EXCEPT ![st.i + 1] = st.sbox[j2 + 1],
                                 ![j2 + 1] = st.sbox[st.i + 1]],
        i |-> st.i + 1, j |-> j2]

\* initKSA, the rounds of the shuffle from st.i up to n - 1, run as the first
\* half of them followed by the rest
RECURSIVE KsaRounds(_, _, _)
KsaRounds(st, K, n) ==
    IF st.i >= n THEN st
    ELSE IF st.i + 1 = n THEN KsaRound(st, K)
    ELSE KsaRounds(KsaRounds(st, K, (st.i + n) \div 2), K, n)

\* initKSA: the shuffled alphabet of a password
initKSA(passwd) ==
    LET n == Len(sourceChars)
        key == Sha256(passwd)
        K == AsSeq([i \in 1..n |-> key[((i - 1) % 32) + 1]], n)
        shuffled == KsaRounds([sbox |-> AsSeq([i \in 1..n |-> i - 1], n),
                               i |-> 0, j |-> 0], K, n)
    IN AsSeq([k \in 1..n |-> sourceChars[shuffled.sbox[k] + 1]], n)

\* NewMixBase64: chars, 64 characters and the padding character at index 64
\* (position 65 of the sequence)
NewMixBase64(passwd) ==
    LET secret == IF Len(passwd) = 64 THEN passwd
                  ELSE initKSA(passwd \o Bytes("mix64"))
    IN SubSeq(secret, 1, 64)
           \o << IF Len(secret) > 64 THEN secret[65] ELSE ByteOf("+") >>

\* A decode map built from the unshuffled alphabet
DecodeMapUnshuffled(chars, c) ==
    LET at == {i \in 0..64 : sourceChars[i + 1] = c}
    IN IF at = {} THEN -1 ELSE CHOOSE i \in at : \A k \in at : k <= i

\* decodeMap[c]: the index of c in chars, -1 for "not in the map"
DecodeMap(chars, c) ==
    LET at == {i \in 0..64 : chars[i + 1] = c}
    IN IF at = {} THEN -1 ELSE CHOOSE i \in at : \A k \in at : k <= i

\* MixBase64.Encode
RECURSIVE MixEncode(_, _)
MixEncode(chars, data) ==
    IF Len(data) = 0 THEN <<>>
    ELSE IF Len(data) >= 3
    THEN << chars[(data[1] \div 4) + 1],
            chars[BitOr((data[1] % 4) * 16, data[2] \div 16) + 1],
            chars[BitOr((data[2] % 16) * 4, data[3] \div 64) + 1],
            chars[(data[3] % 64) + 1] >>
             \o MixEncode(chars, SubSeq(data, 4, Len(data)))
    ELSE IF Len(data) = 1
    THEN << chars[(data[1] \div 4) + 1], chars[((data[1] % 4) * 16) + 1],
            chars[65], chars[65] >>
    ELSE << chars[(data[1] \div 4) + 1],
            chars[BitOr((data[1] % 4) * 16, data[2] \div 16) + 1],
            chars[((data[2] % 16) * 4) + 1], chars[65] >>

HasSuffixBytes(s, suffix) ==
    Len(suffix) <= Len(s) /\ SubSeq(s, Len(s) - Len(suffix) + 1, Len(s)) = suffix

\* What a call can come to: a value, an error, or a run-time panic
Returned(data) == [outcome |-> "ok", data |-> data]
Failed == [outcome |-> "error", data |-> <<>>]
Panicked == [outcome |-> "panic", data |-> <<>>]

\* MixBase64.Decode, the loop from offset i (counted from 1) on: the four
\* characters are indexed before anything is checked
RECURSIVE MixDecodeFrom(_, _, _, _, _)
MixDecodeFrom(chars, base64Str, i, size, buffer) ==
    IF i > Len(base64Str) THEN Returned(buffer)
    ELSE IF i + 3 > Len(base64Str) THEN Panicked
    ELSE LET enc1 == DecodeMap(chars, base64Str[i])
             enc2 == DecodeMap(chars, base64Str[i + 1])
             enc3 == DecodeMap(chars, base64Str[i + 2])
             enc4 == DecodeMap(chars, base64Str[i + 3])
         IN IF enc1 < 0 \/ enc2 < 0 \/ enc3 < 0 \/ enc4 < 0 THEN Failed
            ELSE IF Len(buffer) >= size THEN Panicked
            ELSE LET b1 == Append(buffer, BitOr(enc1 * 4, enc2 \div 16) % 256)
                     b2 == IF enc3 # 64 /\ Len(b1) < size
                           THEN Append(b1, BitOr((enc2 % 16) * 16, enc3 \div 4) % 256)
                           ELSE b1
                     b3 == IF enc4 # 64 /\ Len(b2) < size
                           THEN Append(b2, BitOr((enc3 % 4) * 64, enc4) % 256)
                           ELSE b2
                 IN MixDecodeFrom(chars, base64Str, i + 4, size, b3)

\* MixBase64.Decode
MixDecode(chars, base64Str) ==
    IF Len(base64Str) = 0 THEN Returned(<<>>)
    ELSE LET paddingChar == <<chars[65]>>
             size == (Len(base64Str) \div 4) * 3
                     - (IF HasSuffixBytes(base64Str, paddingChar \o paddingChar) THEN 2
                        ELSE IF HasSuffixBytes(base64Str, paddingChar) THEN 1
                        ELSE 0)
         IN IF size < 0 THEN Panicked
            ELSE MixDecodeFrom(chars, base64Str, 1, size, <<>>)

\* CRC6.generateTable6, one turn of the inner loop
Shift6(curr) == IF curr % 2 # 0 THEN BitXor(curr \div 2, 48) ELSE curr \div 2

\* CRC6.generateTable6: the entry i of the table, eight turns
Table6(i) == Shift6(Shift6(Shift6(Shift6(Shift6(Shift6(Shift6(Shift6(i))))))))

\* CRC6.Checksum, one turn of the loop: st holds crc and the number k of
\* bytes taken
CrcByte(st, data) ==
    [crc |-> Table6(BitXor(st.crc, data[st.k + 1])), k |-> st.k + 1]

\* CRC6.Checksum, the turns of the loop from byte st.k up to byte n - 1, run
\* as the first half of them followed by the rest
RECURSIVE CrcBytes(_, _, _)
CrcBytes(st, data, n) ==
    IF st.k >= n THEN st
    ELSE IF st.k + 1 = n THEN CrcByte(st, data)
    ELSE CrcBytes(CrcBytes(st, data, (st.k + n) \div 2), data, n)

\* CRC6.Checksum
Checksum(data) == CrcBytes([crc |-> 0, k |-> 0], data, Len(data)).crc

GetSourceChar(index) ==
    IF index < 0 \/ index >= Len(sourceChars) THEN sourceChars[1]
    ELSE sourceChars[index + 1]

\* The check character EncodeName appends and DecodeName compares
Crc6Check(encodedName, passwdOutward) ==
    GetSourceChar(Checksum(encodedName \o passwdOutward))

\* encryption.EncodeName on bytes, from GetPasswdOutward's result on
EncodeNameBytes(passwdOutward, plainName) ==
    LET encodedName == MixEncode(NewMixBase64(passwdOutward), plainName)
    IN Append(encodedName, Crc6Check(encodedName, passwdOutward))

\* encryption.DecodeName on bytes, from GetPasswdOutward's result on
DecodeNameBytes(passwdOutward, encodedName) ==
    IF Len(encodedName) < 2 THEN Returned(<<>>)
    ELSE LET subEncName == SubSeq(encodedName, 1, Len(encodedName) - 1)
         IN IF Crc6Check(subEncName, passwdOutward) # encodedName[Len(encodedName)]
            THEN Returned(<<>>)
            ELSE LET decoded == MixDecode(NewMixBase64(passwdOutward), subEncName)
                 IN IF decoded.outcome = "error" THEN Returned(<<>>)
                    ELSE decoded

\* path.Ext on bytes
ExtBytes(name) ==
    LET dots == {i \in 1..Len(name) : name[i] = ByteOf(".")}
    IN IF dots = {} THEN <<>>
       ELSE SubSeq(name, CHOOSE i \in dots : \A j \in dots : j <= i, Len(name))

\* url.QueryUnescape on bytes: "+" stands for a space (no name of the model
\* carries a % escape)
QueryUnescapeBytes(s) ==
    AsSeq([i \in 1..Len(s) |-> IF s[i] = ByteOf("+") THEN ByteOf(" ") ELSE s[i]],
          Len(s))

\* encryption.ConvertShowName on the bytes of a file name
ConvertShowNameBytes(passwdOutward, pathText) ==
    LET fileName == QueryUnescapeBytes(pathText)
        ext == ExtBytes(fileName)
        encName == SubSeq(fileName, 1, Len(fileName) - Len(ext))
        showName == DecodeNameBytes(passwdOutward, encName)
    IN IF showName.outcome = "panic" THEN Panicked
       ELSE IF showName.data = <<>> THEN Returned(Bytes(OrigPrefix) \o fileName)
       ELSE showName

(***************************************************************************)
(* Calls of the file-name codec                                            *)
(***************************************************************************)
CodecPasswords == {"pw1", "pw2"}

CodecEncTypes == {EncTypeAESCTR, EncTypeRC4MD5, EncTypeChaCha20}

\* The key of the names of a rule, as bytes
PasswdOutwardBytes(password, encType) == Bytes(GetPasswdOutward(password, encType))

\* Plain names: one to five bytes, ASCII and not
PlainNames ==
    {Bytes("a"), Bytes("ab"), Bytes("abc"), Bytes("abcd"), Bytes("video"),
     Bytes("a_b.c"), <<0>>, <<255>>, <<255, 255>>, <<0, 255, 128>>,
     <<228, 184, 173>>}

\* body followed by the check character of body under the key
Checked(passwdOutward, body) == Append(body, Crc6Check(body, passwdOutward))

\* Names a backend can list under a rule: names encoded under the rule's
\* key, with and without an extension; names never encoded; names that end
\* in the check character without being encodings
ListedNames(passwdOutward) ==
    {EncodeNameBytes(passwdOutward, Bytes("video")) \o Bytes(".mp4"),
     EncodeNameBytes(passwdOutward, Bytes("ab")),
     EncodeNameBytes(passwdOutward, Bytes("a")) \o Bytes(".txt"),
     Bytes("readme.txt"), Bytes("a"), Bytes("a.txt"), Bytes("a+b.txt"),
     Checked(passwdOutward, Bytes("readm")) \o Bytes(".txt"),
     Checked(passwdOutward, Bytes("a")),
     Checked(passwdOutward, Bytes("abcd")) \o Bytes(".txt"),
     Checked(passwdOutward, Bytes("ab!d")),
     Checked(passwdOutward, Bytes("abcdefg"))}

CdConvertShowName(password, encType, fileName) ==
    /\ calc = NoCall
    /\ calc' = [op |-> "convertShowName",
                passwdOutward |-> PasswdOutwardBytes(password, encType),
                name |-> fileName,
                out |-> ConvertShowNameBytes(PasswdOutwardBytes(password, encType),
                                             fileName)]
    /\ UNCHANGED otherThanCalc

CdEncodeDecode(password, encType, plainName) ==
    /\ calc = NoCall
    /\ LET passwdOutward == PasswdOutwardBytes(password, encType)
           encoded == EncodeNameBytes(passwdOutward, plainName)
       IN calc' = [op |-> "encodeDecode", passwdOutward |-> passwdOutward,
                   name |-> plainName, encoded |-> encoded,
                   out |-> DecodeNameBytes(passwdOutward, encoded)]
    /\ UNCHANGED otherThanCalc

NextCodec ==
    \/ \E password \in CodecPasswords, encType \in CodecEncTypes :
           \/ \E fileName \in ListedNames(PasswdOutwardBytes(password, encType)) :
                  CdConvertShowName(password, encType, fileName)
           \/ \E plainName \in PlainNames :
                  CdEncodeDecode(password, encType, plainName)
    \/ CalcDone

SpecCodec == InitCalc /\ [][NextCodec]_vars

(***************************************************************************)
(* C26: decrypting a listed name yields the decoded name or, on any        *)
(* decoding failure (check character mismatch, a character outside the     *)
(* alphabet, a body whose length is not a multiple of 4, a name too        *)
(* short), orig_ followed by the original name; the failure never aborts   *)
(* the request.                                                            *)
(***************************************************************************)
\* The name without its extension is not an encoding under the key
DecodingFails(passwdOutward, encName) ==
    \/ Len(encName) < 2
    \/ Crc6Check(SubSeq(encName, 1, Len(encName) - 1), passwdOutward)
           # encName[Len(encName)]
    \/ \E i \in 1..(Len(encName) - 1) :
           DecodeMap(NewMixBase64(passwdOutward), encName[i]) < 0
    \/ (Len(encName) - 1) % 4 # 0

C26_DecodedNameOrOrigName ==
    calc.op = "convertShowName" =>
        LET encName == SubSeq(calc.name, 1, Len(calc.name) - Len(ExtBytes(calc.name)))
        IN /\ calc.out.outcome = "ok"
           /\ DecodingFails(calc.passwdOutward, encName)
                  => calc.out.data = Bytes(OrigPrefix) \o calc.name
           /\ ~DecodingFails(calc.passwdOutward, encName)
                  => calc.out.data =
                         MixDecode(NewMixBase64(calc.passwdOutward),
                                   SubSeq(encName, 1, Len(encName) - 1)).data

(***************************************************************************)
(* C29: for every password, encType and non-empty name,                    *)
(* decodeName(encodeName(name)) = name.                                    *)
(***************************************************************************)
C29_DecodeInvertsEncode ==
    calc.op = "encodeDecode" => calc.out = Returned(calc.name)

\* A name that is not text, of a length that needs padding, has made the
\* round trip under an rc4md5 key.
C29_Witness ==
    /\ calc.op = "encodeDecode"
    /\ calc.name = <<255, 255>>
    /\ calc.passwdOutward = PasswdOutwardBytes("pw2", EncTypeRC4MD5)
    /\ calc.out.data = calc.name

(***************************************************************************)
(* The stream ciphers step by step (AESCTR, ChaCha20Cipher, RC4MD5).       *)
(* Bytes are two bits wide.  The AES block function, the ChaCha20 block    *)
(* function and the digests that derive keys and IVs are stand-ins; the    *)
(* counters, the block offsets, the RC4 state and the segment resets are   *)
(* the code's, with the widths of the counters scaled down.                *)
(***************************************************************************)
Uint64Limit == 8        \* the number of values of a uint64
Uint32Limit == 8        \* the number of values of a uint32
SboxLen == 4            \* entries of the RC4 S-box, one per byte value
segmentPosition == 20   \* bytes after which RC4MD5 is keyed anew
AESBlockSize == 16
ChaChaBlockSize == 64

\* md5 of the decimal file size, as the two halves of the IV (big-endian)
IvOf(fileSize) == << (fileSize \div Uint64Limit) % Uint64Limit, fileSize % Uint64Limit >>

\* one byte of AES_key(counter block)
AesBlockByte(key, ctr, used) ==
    (key * 31 + (ctr[1] * Uint64Limit + ctr[2]) * 17 + used * 7 + used * ctr[2]) % 4

\* one byte of the ChaCha20 block of (key, nonce, counter)
ChaChaBlockByte(key, nonce, counter, used) ==
    (key * 29 + nonce * 3 + counter * 11 + used * 5 + (used \div 3) * (counter + 1)) % 4

\* NewAESCTR
NewAESCTR(password, fileSize) ==
    [encType |-> EncTypeAESCTR, fileSize |-> fileSize,
     key |-> KeySeed(EncTypeAESCTR, password, fileSize),
     iv |-> IvOf(fileSize), ctr |-> IvOf(fileSize), used |-> 0, position |-> 0]

\* AESCTR.incrementIV: the lower half takes the count, the upper half the carry
incrementIV(iv, count) ==
    LET carry == count % Uint64Limit
        newLower == (iv[2] + carry) % Uint64Limit
    IN << IF newLower < iv[2] THEN (iv[1] + 1) % Uint64Limit ELSE iv[1], newLower >>

\* cipher.Stream.XORKeyStream of the CTR mode, one byte: the key-stream byte
\* and the stream after it; the counter block counts as one big-endian number
AesStreamByte(a) ==
    [ks |-> AesBlockByte(a.key, a.ctr, a.used),
     c |-> IF a.used + 1 < AESBlockSize THEN [a EXCEPT !.used = a.used + 1]
           ELSE [a EXCEPT !.used = 0,
                          !.ctr = IF a.ctr[2] + 1 < Uint64Limit
                                  THEN <<a.ctr[1], a.ctr[2] + 1>>
                                  ELSE <<(a.ctr[1] + 1) % Uint64Limit, 0>>]]

\* NewChaCha20
NewChaCha20(password, fileSize) ==
    [encType |-> EncTypeChaCha20, fileSize |-> fileSize,
     key |-> KeySeed(EncTypeChaCha20, password, fileSize),
     nonce |-> fileSize % 4, counter |-> 0, used |-> 0, position |-> 0]

\* chacha20.Cipher.XORKeyStream, one byte
ChaChaStreamByte(c) ==
    [ks |-> ChaChaBlockByte(c.key, c.nonce, c.counter, c.used),
     c |-> IF c.used + 1 < ChaChaBlockSize THEN [c EXCEPT !.used = c.used + 1]
           ELSE [c EXCEPT !.used = 0, !.counter = c.counter + 1]]

\* RC4MD5.initKSA, one round of the shuffle (st holds i, j and sbox; sbox[i]
\* of the code is the element i + 1)
Rc4KsaRound(st, K) ==
    LET j2 == (st.j + st.sbox[st.i + 1] + K[st.i + 1]) % SboxLen
    IN [sbox |-> [st.sbox EXCEPT ![st.i + 1] = st.sbox[j2 + 1],
                                 ![j2 + 1] = st.sbox[st.i + 1]],
        i |-> st.i + 1, j |-> j2]

RECURSIVE Rc4KsaRounds(_, _)
Rc4KsaRounds(st, K) ==
    IF st.i >= SboxLen THEN st ELSE Rc4KsaRounds(Rc4KsaRound(st, K), K)

\* RC4MD5.initKSA
Rc4InitKSA(r, key) ==
    LET K == AsSeq([i \in 1..SboxLen |-> key[((i - 1) % Len(key)) + 1]], SboxLen)
        st == Rc4KsaRounds([sbox |-> AsSeq([i \in 1..SboxLen |-> i - 1], SboxLen),
                            i |-> 0, j |-> 0], K)
    IN [r EXCEPT !.sbox = st.sbox, !.i = 0, !.j = 0]

\* RC4MD5.resetKSA: the segment offset, as a big-endian uint32 of two bytes,
\* is XORed into the last bytes of the key
resetKSA(r) ==
    LET offset == ((r.position \div segmentPosition) * segmentPosition) % Uint32Limit
        offsetBuf == << (offset \div 4) % 4, offset % 4 >>
        n == Len(r.key)
        rc4Key == [r.key EXCEPT ![n - 1] = Xor(r.key[n - 1], offsetBuf[1]),
                                ![n] = Xor(r.key[n], offsetBuf[2])]
    IN Rc4InitKSA(r, rc4Key)

\* NewRC4MD5
NewRC4MD5(password, fileSize) ==
    resetKSA([encType |-> EncTypeRC4MD5, fileSize |-> fileSize,
              key |-> AsSeq([i \in 1..4 |->
                                (KeySeed(EncTypeRC4MD5, password, fileSize) * i + i * i) % 4],
                            4),
              position |-> 0, i |-> 0, j |-> 0,
              sbox |-> AsSeq([i \in 1..SboxLen |-> 0], SboxLen)])

\* RC4MD5.prgaAdvance, one round
Rc4Prga(r) ==
    LET i2 == (r.i + 1) % SboxLen
        j2 == (r.j + r.sbox[i2 + 1]) % SboxLen
    IN [r EXCEPT !.i = i2, !.j = j2,
                 !.sbox = [r.sbox EXCEPT ![i2 + 1] = r.sbox[j2 + 1],
                                         ![j2 + 1] = r.sbox[i2 + 1]]]

\* RC4MD5.Encrypt, one turn of the loop
Rc4StreamByte(r) ==
    LET s == Rc4Prga(r)
        ks == s.sbox[((s.sbox[s.i + 1] + s.sbox[s.j + 1]) % SboxLen) + 1]
        moved == [s EXCEPT !.position = s.position + 1]
    IN [ks |-> ks,
        c |-> IF moved.position % segmentPosition = 0 THEN resetKSA(moved)
              ELSE moved]

\* The next key-stream byte of a cipher and the cipher after it
StreamByte(c) ==
    CASE c.encType = EncTypeAESCTR ->
             [ks |-> AesStreamByte(c).ks,
              c |-> [AesStreamByte(c).c EXCEPT !.position = c.position + 1]]
      [] c.encType = EncTypeChaCha20 ->
             [ks |-> ChaChaStreamByte(c).ks,
              c |-> [ChaChaStreamByte(c).c EXCEPT !.position = c.position + 1]]
      [] OTHER -> Rc4StreamByte(c)

\* Cipher.Encrypt, the turns of its loop from byte st.k of data up to byte
\* n - 1, run as the first half of them followed by the rest
RECURSIVE EncryptBytes(_, _, _)
EncryptBytes(st, data, n) ==
    IF st.k >= n THEN st
    ELSE IF st.k + 1 = n
    THEN [c |-> StreamByte(st.c).c,
          out |-> Append(st.out, Xor(data[st.k + 1], StreamByte(st.c).ks)),
          k |-> st.k + 1]
    ELSE EncryptBytes(EncryptBytes(st, data, (st.k + n) \div 2), data, n)

\* XORKeyStream over n bytes whose output is thrown away
Discard(c, n) ==
    EncryptBytes([c |-> c, out |-> <<>>, k |-> 0], AsSeq([i \in 1..n |-> 0], n), n).c

\* AESCTR.SetPosition without the bytes of the block begun
AESCTRSetPositionWholeBlocks(a, position) ==
    LET iv == incrementIV(IvOf(a.fileSize), position \div AESBlockSize)
    IN [a EXCEPT !.iv = iv, !.ctr = iv, !.used = 0, !.position = position]

\* AESCTR.SetPosition: the source IV plus the number of whole blocks, a new
\* CTR stream, and the bytes of the block begun thrown away
AESCTRSetPosition(a, position) ==
    LET iv == incrementIV(IvOf(a.fileSize), position \div AESBlockSize)
        fresh == [a EXCEPT !.iv = iv, !.ctr = iv, !.used = 0]
    IN [Discard(fresh, position % AESBlockSize) EXCEPT !.position = position]

\* ChaCha20Cipher.SetPosition: a new cipher, SetCounter(uint32(position / 64))
\* and the bytes of the block begun thrown away
ChaCha20SetPosition(c, position) ==
    LET fresh == [c EXCEPT !.counter = (position \div ChaChaBlockSize) % Uint32Limit,
                           !.used = 0]
    IN [Discard(fresh, position % ChaChaBlockSize) EXCEPT !.position = position]

\* RC4MD5.prgaAdvance: the rounds from st.k up to n - 1
RECURSIVE prgaAdvance(_, _)
prgaAdvance(st, n) ==
    IF st.k >= n THEN st
    ELSE IF st.k + 1 = n THEN [c |-> Rc4Prga(st.c), k |-> st.k + 1]
    ELSE prgaAdvance(prgaAdvance(st, (st.k + n) \div 2), n)

\* RC4MD5.SetPosition: the key of the segment, then the rounds inside it
RC4MD5SetPosition(r, position) ==
    prgaAdvance([c |-> resetKSA([r EXCEPT !.position = position]), k |-> 0],
                position % segmentPosition).c

\* the registered factories
CipherFactory(encType, password, fileSize) ==
    CASE encType = EncTypeAESCTR -> NewAESCTR(password, fileSize)
      [] encType = EncTypeChaCha20 -> NewChaCha20(password, fileSize)
      [] OTHER -> NewRC4MD5(password, fileSize)

\* Cipher.SetPosition
CipherSetPosition(c, position) ==
    CASE c.encType = EncTypeAESCTR -> AESCTRSetPosition(c, position)
      [] c.encType = EncTypeChaCha20 -> ChaCha20SetPosition(c, position)
      [] OTHER -> RC4MD5SetPosition(c, position)

\* Cipher.Encrypt on a buffer that leaves the cipher where it was
EncryptStanding(c, data) ==
    [c |-> c,
     out |-> EncryptBytes([c |-> c, out |-> <<>>, k |-> 0], data, Len(data)).out]

\* Cipher.Encrypt and Cipher.Decrypt on a buffer: the bytes XORed with the
\* key stream, and the cipher after them
Encrypt(c, data) ==
    LET st == EncryptBytes([c |-> c, out |-> <<>>, k |-> 0], data, Len(data))
    IN [c |-> st.c, out |-> st.out]

(***************************************************************************)
(* Encrypting a stream through EncryptReader and decrypting it through     *)
(* DecryptReader from a position.                                          *)
(***************************************************************************)
DataLen == 70
CipherFileSizes == {71, 127}
ChunkSizes == {1, 16, 64}
CipherPasswords == {"pw2"}
NoInstance == [encType |-> None]

TestData == AsSeq([i \in 1..DataLen |-> PlainByte(1, i - 1)], DataLen)

\* A cipher is made and wrapped in an EncryptReader over the plain data.
CsNew(encType, password, fileSize) ==
    /\ calc = NoCall
    /\ calc' = [op |-> "cipher", data |-> TestData,
                enc |-> CipherFactory(encType, password, fileSize),
                password |-> password,
                encrypted |-> <<>>, dec |-> NoInstance, from |-> 0,
                seeked |-> FALSE, decrypted |-> <<>>]
    /\ UNCHANGED otherThanCalc

\* streamReader.Read of the EncryptReader with a buffer of n bytes
CsEncrypt(n) ==
    /\ calc.op = "cipher"
    /\ calc.dec = NoInstance
    /\ Len(calc.encrypted) < DataLen
    /\ LET at == Len(calc.encrypted)
           got == Min(n, DataLen - at)
           res == Encrypt(calc.enc, SubSeq(calc.data, at + 1, at + got))
       IN calc' = [calc EXCEPT !.enc = res.c, !.encrypted = calc.encrypted \o res.out]
    /\ UNCHANGED otherThanCalc

\* A second cipher of the same key is made for the cipher text from byte p
\* on; seek tells whether SetPosition(p) is called on it.
CsOpen(p, seek) ==
    /\ calc.op = "cipher"
    /\ calc.dec = NoInstance
    /\ Len(calc.encrypted) = DataLen
    /\ p > 0 => seek
    /\ LET fresh == CipherFactory(calc.enc.encType, calc.password, calc.enc.fileSize)
       IN calc' = [calc EXCEPT !.dec = IF seek THEN CipherSetPosition(fresh, p) ELSE fresh,
                               !.from = p, !.seeked = seek]
    /\ UNCHANGED otherThanCalc

\* streamReader.Read of the DecryptReader with a buffer of n bytes
CsDecrypt(n) ==
    /\ calc.op = "cipher"
    /\ calc.dec # NoInstance
    /\ calc.from + Len(calc.decrypted) < DataLen
    /\ LET at == calc.from + Len(calc.decrypted)
           got == Min(n, DataLen - at)
           res == Encrypt(calc.dec, SubSeq(calc.encrypted, at + 1, at + got))
       IN calc' = [calc EXCEPT !.dec = res.c, !.decrypted = calc.decrypted \o res.out]
    /\ UNCHANGED otherThanCalc

NextCipher ==
    \/ \E encType \in {EncTypeAESCTR, EncTypeChaCha20, EncTypeRC4MD5}, password \in CipherPasswords, fileSize \in CipherFileSizes : CsNew(encType, password, fileSize)
    \/ \E n \in ChunkSizes \cup {DataLen} : CsEncrypt(n)
    \/ \E p \in 0..(DataLen - 1), seek \in BOOLEAN : CsOpen(p, seek)
    \/ \E n \in ChunkSizes \cup {DataLen} : CsDecrypt(n)
    \/ CalcDone

SpecCipher == InitCalc /\ [][NextCipher]_vars

\* key-stream byte q (from 0) that the cipher started at 0 has produced
SequentialKeystream(q) == Xor(calc.data[q + 1], calc.encrypted[q + 1])

\* key-stream byte i (from 0) that the cipher opened at calc.from has produced
SeekedKeystream(i) == Xor(calc.encrypted[calc.from + i + 1], calc.decrypted[i + 1])

\* C27: for every position p >= 0, the key stream a cipher produces after
\* SetPosition(p) is the key stream a cipher started at 0 produces after p
\* bytes (AES blocks of 16 bytes, ChaCha20 blocks of 64 bytes and RC4
\* segments included).
C27_SeekMatchesSequentialKeystream ==
    (calc.op = "cipher" /\ calc.dec # NoInstance /\ calc.seeked)
        => \A i \in 0..(Len(calc.decrypted) - 1) :
               SeekedKeystream(i) = SequentialKeystream(calc.from + i)

\* An RC4 cipher set inside the third segment has produced the key stream up
\* to the end, across the next segment boundary.
C27_Witness ==
    /\ calc.op = "cipher" /\ calc.seeked
    /\ calc.enc.encType = EncTypeRC4MD5
    /\ calc.from = 2 * segmentPosition + 3
    /\ calc.from + Len(calc.decrypted) = DataLen

\* C28: data encrypted by a cipher and decrypted by a fresh cipher of the
\* same key at position 0 is the original data, in one call or through the
\* reader wrappers in chunks of any sizes.
C28_RoundTrip ==
    (calc.op = "cipher" /\ calc.dec # NoInstance /\ ~calc.seeked)
        => calc.decrypted = SubSeq(calc.data, 1, Len(calc.decrypted))

\* AES-CTR data has been decrypted whole by a fresh cipher at position 0.
C28_Witness ==
    /\ calc.op = "cipher" /\ calc.dec # NoInstance /\ ~calc.seeked
    /\ calc.enc.encType = EncTypeAESCTR
    /\ Len(calc.decrypted) = DataLen
    /\ calc.dec.position = DataLen

(***************************************************************************)
(* The size a download's cipher is keyed with: getFileSizeWithStrategy     *)
(* (the learned strategy of the directory, else the fallback chain) and,   *)
(* on the backend's answer, resolveFileSize.  The memo, the FileInfo cache *)
(* and the file-size cache persist from request to request.                *)
(***************************************************************************)
NoSize == [ok |-> FALSE, Size |-> 0]

\* ProxyHandler.executeStrategyHTTP: [ok, Size]; ok = FALSE is its error
executeStrategyHTTP(strategy, fileDAO, fileSizeCache, displayPath, realPath, head) ==
    CASE strategy = StrategyFileInfoCache ->
             IF FileDAOGet(fileDAO, displayPath).found
             THEN [ok |-> TRUE, Size |-> FileDAOGet(fileDAO, displayPath).Size]
             ELSE NoSize
      [] strategy = StrategyFileSizeCache ->
             IF GetFileSize(fileSizeCache, realPath).ok
             THEN [ok |-> TRUE, Size |-> GetFileSize(fileSizeCache, realPath).size]
             ELSE NoSize
      [] strategy = StrategyHEADRequest ->
             IF executeHEADRequestHTTP(head).ok
             THEN [ok |-> TRUE, Size |-> executeHEADRequestHTTP(head).size]
             ELSE NoSize
      [] OTHER -> NoSize

\* ProxyHandler.fallbackChainHTTP: the size, the strategy that gave it and the
\* file-size cache after the chain
SizedBy(size, used, fileSizeCache) ==
    [Size |-> size, used |-> used, fileSizeCache |-> fileSizeCache]

FallbackChain(fileDAO, fileSizeCache, displayPath, realPath, head) ==
    IF FileDAOGet(fileDAO, displayPath).found
    THEN SizedBy(FileDAOGet(fileDAO, displayPath).Size, StrategyFileInfoCache,
                 fileSizeCache)
    ELSE IF GetFileSize(fileSizeCache, realPath).ok
    THEN SizedBy(GetFileSize(fileSizeCache, realPath).size, StrategyFileSizeCache,
                 fileSizeCache)
    ELSE IF executeHEADRequestHTTP(head).ok /\ executeHEADRequestHTTP(head).size > 0
    THEN SizedBy(executeHEADRequestHTTP(head).size, StrategyHEADRequest,
                 SetFileSize(fileSizeCache, realPath, executeHEADRequestHTTP(head).size))
    ELSE SizedBy(0, None, fileSizeCache)

\* getFileSizeWithStrategy after the learned strategy, if any, has not given
\* a size: the fallback chain, its success recorded
AfterFallback(entries, now, dirPath, chain) ==
    {[Size |-> chain.Size, used |-> chain.used, strategies |-> recorded,
      fileSizeCache |-> chain.fileSizeCache] :
        recorded \in IF chain.Size > 0
                     THEN RecordSuccess(entries, dirPath, chain.used, now)
                     ELSE {entries}}

\* ProxyHandler.getFileSizeWithStrategy: the possible results [Size, used,
\* strategies, fileSizeCache]
getFileSizeWithStrategy(entries, now, fileDAO, fileSizeCache, dirPath, displayPath, realPath, head) ==
    LET strategy == GetStrategy(entries, dirPath, now)
        learned == executeStrategyHTTP(strategy.Strategy, fileDAO, fileSizeCache,
                                       displayPath, realPath, head)
        chain == FallbackChain(fileDAO, fileSizeCache, displayPath, realPath, head)
    IN IF strategy = NoEntry
       THEN AfterFallback(entries, now, dirPath, chain)
       ELSE IF learned.ok /\ learned.Size > 0
       THEN {[Size |-> learned.Size, used |-> strategy.Strategy,
              strategies |-> recorded, fileSizeCache |-> fileSizeCache] :
                recorded \in RecordSuccess(entries, dirPath, strategy.Strategy, now)}
       ELSE AfterFallback(RecordFailure(entries, dirPath, strategy.Strategy, now),
                          now, dirPath, chain)

SizedFile == <<"enc", "a.bin">>
SizedDir == "/enc"

ListedSize == 2000
PrefetchedSize == 3000
HeadedSize == 4000
RangeTotal == 5000
BodyLength == 6000

\* the answers to the size probe: none, or the length of the file
SizeHeads ==
    {HeadFailed,
     [sent |-> TRUE, err |-> FALSE, StatusCode |-> 200,
      ContentType |-> "application/octet-stream",
      ContentLength |-> FormatInt(HeadedSize)]}

\* the backend's answers to the download: 200 with a Content-Length, 206 with
\* a Content-Range, 206 without one
SizeResponses ==
    {[NoResponse EXCEPT !.err = FALSE, !.StatusCode = 200,
                        !.ContentLength = FormatInt(BodyLength)],
     [NoResponse EXCEPT !.err = FALSE, !.StatusCode = 206,
                        !.ContentLength = FormatInt(BodyLength),
                        !.ContentRange = ContentRangeValue(0, BodyLength - 1, RangeTotal)],
     [NoResponse EXCEPT !.err = FALSE, !.StatusCode = 206,
                        !.ContentLength = FormatInt(BodyLength)]}

\* A directory listing or PROPFIND caches the FileInfo of the file.
SzList(size) ==
    /\ calc = NoCall
    /\ dvFileDAO' = FileDAOSet(dvFileDAO, SizedFile, size)
    /\ UNCHANGED <<dvBackend, dvEncPathMap, dvFileSizeCache, dvUploads, dv, calc>>
    /\ UNCHANGED <<strategyVars, downloadVars, redirectVars, resolverVars, fetchVars, listVars, poolVars, cacheVars, sizesVars>>

\* A prefetch caches the size of the file.
SzPrefetch ==
    /\ calc = NoCall
    /\ dvFileSizeCache' = SetFileSize(dvFileSizeCache, SizedFile, PrefetchedSize)
    /\ UNCHANGED <<dvBackend, dvFileDAO, dvEncPathMap, dvUploads, dv, calc>>
    /\ UNCHANGED <<strategyVars, downloadVars, redirectVars, resolverVars, fetchVars, listVars, poolVars, cacheVars, sizesVars>>

\* A download: the size of getFileSizeWithStrategy goes to the stream proxy,
\* which resolves it against the backend's answer and keys the cipher.
SzDownload(head, resp) ==
    /\ calc = NoCall
    /\ \E got \in getFileSizeWithStrategy(strategies, scNow, dvFileDAO, dvFileSizeCache,
                                          SizedDir, SizedFile, SizedFile, head) :
          /\ got.strategies[SizedDir].SuccessCount <= MaxSuccessCount
          /\ strategies' = got.strategies
          /\ dvFileSizeCache' = got.fileSizeCache
          /\ calc' = [op |-> "size",
                      fileInfo |-> FileDAOGet(dvFileDAO, SizedFile),
                      cached |-> GetFileSize(dvFileSizeCache, SizedFile),
                      probed |-> executeHEADRequestHTTP(head),
                      learned |-> GetStrategy(strategies, SizedDir, scNow).Strategy,
                      used |-> got.used,
                      resp |-> resp,
                      totalFileSize |-> resolveFileSize(got.Size, resp)]
    /\ UNCHANGED <<scNow, scHistory, scReq>>
    /\ UNCHANGED <<dvBackend, dvFileDAO, dvEncPathMap, dvUploads, dv>>
    /\ UNCHANGED <<downloadVars, redirectVars, resolverVars, fetchVars, listVars, poolVars, cacheVars, sizesVars>>

NextSize ==
    \/ ScTick
    \/ \E size \in {0, ListedSize} : SzList(size)
    \/ SzPrefetch
    \/ \E head \in SizeHeads, resp \in SizeResponses : SzDownload(head, resp)
    \/ CalcDone

SpecSize == InitCalc /\ [][NextSize]_vars

\* the size of the backend's answer: the total of a 206's Content-Range,
\* else Content-Length
ResponseSize(resp) ==
    IF resp.StatusCode = 206 /\ resp.ContentRange # <<>> THEN RangeTotal
    ELSE BodyLength

\* the first source that has a value, in the order FileInfo, file-size cache,
\* HEAD probe, backend response
FirstSourceSize(call) ==
    IF call.fileInfo.found /\ call.fileInfo.Size > 0 THEN call.fileInfo.Size
    ELSE IF call.cached.ok THEN call.cached.size
    ELSE IF call.probed.ok THEN call.probed.size
    ELSE ResponseSize(call.resp)

\* C30: the totalFileSize handed to the cipher comes from the first source
\* that has a value, in the order cached FileInfo size, file-size cache, HEAD
\* probe, backend response (Content-Range total for 206, else
\* Content-Length); no source is used while one before it has a value.
C30_SizeFromFirstSource ==
    calc.op = "size" => calc.totalFileSize = FirstSourceSize(calc)

(***************************************************************************)
(* Invalidation of a learned strategy                                      *)
(***************************************************************************)
\* The position in history of the latest success of a strategy (0 when it
\* never succeeded)
LastSuccessOf(history, strategyType) ==
    LET P == {i \in 1..Len(history) : history[i].ok /\ history[i].strategy = strategyType}
    IN IF P = {} THEN 0 ELSE CHOOSE p \in P : \A q \in P : q <= p

\* The failures of a strategy recorded after its latest success
FailuresSinceSuccess(history, strategyType) ==
    Cardinality({i \in 1..Len(history) :
                    /\ i > LastSuccessOf(history, strategyType)
                    /\ ~history[i].ok
                    /\ history[i].strategy = strategyType})

\* C31: a learned strategy is invalidated after at most three failures: a
\* directory has no memo entry whose strategy has failed three times since
\* its latest success, and no stored entry has a failure count of 3 or more.
C31_InvalidatedByThirdFailure ==
    \A d \in Dirs :
        strategies[d] # NoEntry =>
            /\ strategies[d].FailCount < InvalidatingFailures
            /\ FailuresSinceSuccess(scHistory[d], strategies[d].Strategy)
                   < InvalidatingFailures

\* The third failure in a row of a learned strategy has just been recorded
\* and the directory has no entry.
C31_Witness ==
    \E d \in Dirs :
        LET h == scHistory[d] IN
        /\ Len(h) >= ReliableSuccesses + InvalidatingFailures
        /\ \A i \in (Len(h) - InvalidatingFailures + 1)..Len(h) :
               ~h[i].ok /\ h[i].strategy = h[Len(h)].strategy
        /\ strategies[d] = NoEntry

(***************************************************************************)
(* The FileInfo cache after a WebDAV PUT                                   *)
(***************************************************************************)
\* The exchange in hand is a WebDAV PUT with a Content-Length to a path that
\* matches a rule.
PutUnderRule(x) ==
    /\ x.handler = "handlePut"
    /\ RuleMatched(x)
    /\ x.upload.ContentLength # <<>>

\* C32: after a WebDAV PUT to a path that matches a rule, the FileInfo cache
\* holds an entry for the display path whose size is the Content-Length of
\* that PUT.
C32_PutCachesFileInfo ==
    PutUnderRule(dv) =>
        FileDAOGet(dvFileDAO, dv.path)
            = [found |-> TRUE, Size |-> ParsedOrZero(ParseInt(dv.upload.ContentLength))]

(***************************************************************************)
(* The pooled copy buffers: ProxyRequest, ProxyDownloadDecrypt and         *)
(* HandleProxy take a buffer right before io.CopyBuffer and give it back   *)
(* in a deferred call.  A buffer is a number from 1; bufferPool is the set *)
(* of buffers lying in the pool.                                           *)
(***************************************************************************)
MaxBuffers == 3     \* buffers New may allocate
MaxChunks == 2      \* chunks copied per request

CopyingHandlers == {"ProxyRequest", "ProxyDownloadDecrypt", "HandleProxy"}

\* The ways a handler returns before it takes a buffer
EarlyExits(handler) ==
    CASE handler = "ProxyRequest" -> {"buildError", "upstreamError"}
      [] handler = "ProxyDownloadDecrypt" ->
             {"buildError", "upstreamError", "upstreamStatus", "cipherError",
              "rangeError"}
      [] OTHER -> {"buildError", "upstreamError", "htmlPage"}

\* The ways io.CopyBuffer ends
CopyEnds == {"eof", "readError", "writeError", "cancelled"}

\* The deferred calls that run when the copy has ended only if it ended well
DeferredOnSuccess(handler, cause) ==
    IF cause = "eof" THEN {"Close", "putBuffer"} ELSE {"Close"}

\* The deferred calls that run when the handler returns after the copy: they
\* were registered before the copy began, whatever ends it
Deferred(handler, cause) == {"Close", "putBuffer"}

\* getBuffer: sync.Pool.Get hands out a pooled buffer or a new one
BpGet(r) ==
    /\ bq[r].pc = "upstream"
    /\ \/ \E b \in bufferPool :
             /\ bufferPool' = bufferPool \ {b}
             /\ bq' = [bq EXCEPT ![r].pc = "copy", ![r].buf = b, ![r].gets = @ + 1]
             /\ UNCHANGED bufMade
       \/ /\ bufMade < MaxBuffers
          /\ bufMade' = bufMade + 1
          /\ bq' = [bq EXCEPT ![r].pc = "copy", ![r].buf = bufMade + 1,
                              ![r].gets = @ + 1]
          /\ UNCHANGED bufferPool
    /\ UNCHANGED otherThanPool

\* A request arrives at one of the copying handlers.
BpStart(r, handler) ==
    /\ bq[r].pc = "idle"
    /\ bq' = [bq EXCEPT ![r] = [IdleRequest EXCEPT !.pc = "upstream",
                                                   !.handler = handler]]
    /\ UNCHANGED <<bufferPool, bufMade>>
    /\ UNCHANGED otherThanPool

\* The handler returns before the copy.
BpEarlyExit(r, cause) ==
    /\ bq[r].pc = "upstream"
    /\ cause \in EarlyExits(bq[r].handler)
    /\ bq' = [bq EXCEPT ![r].pc = "done", ![r].exit = cause]
    /\ UNCHANGED <<bufferPool, bufMade>>
    /\ UNCHANGED otherThanPool

\* io.CopyBuffer moves one chunk through the buffer.
BpCopy(r) ==
    /\ bq[r].pc = "copy"
    /\ bq[r].chunks < MaxChunks
    /\ bq' = [bq EXCEPT ![r].chunks = @ + 1]
    /\ UNCHANGED <<bufferPool, bufMade>>
    /\ UNCHANGED otherThanPool

\* io.CopyBuffer ends: the body is at its end, the upstream read or the
\* client write failed, or the request's context was cancelled.
BpCopyEnds(r, cause) ==
    /\ bq[r].pc = "copy"
    /\ bq' = [bq EXCEPT ![r].pc = "returning", ![r].exit = cause]
    /\ UNCHANGED <<bufferPool, bufMade>>
    /\ UNCHANGED otherThanPool

\* The handler returns and its deferred calls run.
BpReturn(r) ==
    /\ bq[r].pc = "returning"
    /\ IF "putBuffer" \in Deferred(bq[r].handler, bq[r].exit)
       THEN /\ bufferPool' = bufferPool \cup {bq[r].buf}
            /\ bq' = [bq EXCEPT ![r].pc = "done", ![r].buf = 0, ![r].puts = @ + 1]
       ELSE /\ bq' = [bq EXCEPT ![r].pc = "done", ![r].buf = 0]
            /\ UNCHANGED bufferPool
    /\ UNCHANGED bufMade
    /\ UNCHANGED otherThanPool

\* The response is over; the connection serves its next request.
BpDone(r) ==
    /\ bq[r].pc = "done"
    /\ bq' = [bq EXCEPT ![r] = IdleRequest]
    /\ UNCHANGED <<bufferPool, bufMade>>
    /\ UNCHANGED otherThanPool

\* sync.Pool drops a pooled buffer at a garbage collection.
BpCollect ==
    /\ \E b \in bufferPool : bufferPool' = bufferPool \ {b}
    /\ UNCHANGED <<bufMade, bq>>
    /\ UNCHANGED otherThanPool

NextPool ==
    \/ \E r \in Reqs, handler \in CopyingHandlers : BpStart(r, handler)
    \/ \E r \in Reqs, cause \in {"buildError", "upstreamError", "upstreamStatus", "cipherError", "rangeError", "htmlPage"} : BpEarlyExit(r, cause)
    \/ \E r \in Reqs : BpGet(r)
    \/ \E r \in Reqs : BpCopy(r)
    \/ \E r \in Reqs, cause \in CopyEnds : BpCopyEnds(r, cause)
    \/ \E r \in Reqs : BpReturn(r)
    \/ \E r \in Reqs : BpDone(r)
    \/ BpCollect

SpecPool == InitCalc /\ [][NextPool]_vars

\* C33: every pooled copy buffer taken while serving a request is returned
\* to the pool exactly once on every exit path of that request: a request
\* never has returned more than it took, a request that is over has returned
\* what it took, and a buffer in use lies neither in the pool nor with
\* another request.
C33_BufferReturnedExactlyOnce ==
    \A r \in Reqs :
        /\ bq[r].puts <= bq[r].gets
        /\ bq[r].gets <= 1
        /\ bq[r].pc = "done" => bq[r].puts = bq[r].gets
        /\ bq[r].buf # 0 =>
              /\ bq[r].buf \notin bufferPool
              /\ \A o \in Reqs \ {r} : bq[o].buf # bq[r].buf

\* A request whose copy was cancelled is over and has returned its buffer,
\* which another request is using now.
C33_Witness ==
    \E r \in Reqs, o \in Reqs :
        /\ bq[r].pc = "done" /\ bq[r].exit = "cancelled"
        /\ bq[r].gets = 1 /\ bq[r].puts = 1
        /\ bq[o].pc = "copy" /\ bq[o].buf = 1 /\ bufMade = 1

(***************************************************************************)
(* The name an upload is stored under, the name a listing shows for it and *)
(* the real name the interceptors derive from the shown name               *)
(***************************************************************************)
UploadNames ==
    {"video.mp4", "notes", "a_b.txt", "archive.tar.gz", "orig_raw.txt",
     "x.y", "readme", "clip.mkv", "Makefile", "movie.avi", "doc.pdf", "data",
     "x_y", "photo.jpg"}

\* The rule an upload through /api/fs/put is encrypted under
FsPutRule(passwdList, uploadPath) == PathFindPasswd(passwdList, uploadPath).rule

\* A file is uploaded through PUT /api/fs/put (HandleFsPut) or through a
\* WebDAV PUT (handlePut), a listing shows it, and the shown name is asked
\* for (download, get, rename, remove).
UnUpload(handler, passwdList, dir, name) ==
    /\ calc = NoCall
    /\ LET uploadPath == Append(dir, name)
           rule == IF handler = "HandleFsPut" THEN FsPutRule(passwdList, uploadPath)
                   ELSE FindByPath(passwdList, uploadPath)
           stored == IF handler = "HandleFsPut"
                     THEN FsPutRealPath(uploadPath, rule, Base(uploadPath))
                     ELSE PutRealPath(uploadPath, rule, Base(uploadPath))
           shown == ConvertShowName(rule.Password, rule.EncType, Base(stored))
       IN calc' = [op |-> "upload", handler |-> handler, rule |-> rule,
                   name |-> name, stored |-> stored, shown |-> shown,
                   real |-> convertDisplayToRealPath(Append(dir, shown), rule)]
    /\ UNCHANGED otherThanCalc

NextUploadName ==
    \/ \E handler \in {"HandleFsPut", "handlePut"}, passwdList \in PasswdLists, dir \in MutatedDirs, name \in UploadNames : UnUpload(handler, passwdList, dir, name)
    \/ CalcDone

SpecUploadName == InitCalc /\ [][NextUploadName]_vars

\* C34: for a file uploaded through PUT /api/fs/put under a rule with
\* encName on, the display name a listing shows for it is converted to
\* exactly the real name under which the upload was stored.
C34_ShownNameLeadsBackToStoredName ==
    (calc.op = "upload" /\ calc.handler = "HandleFsPut"
        /\ calc.rule.Enable /\ calc.rule.EncName)
    => calc.real = calc.stored

(***************************************************************************)
(* The key of a download and the key of the upload, list and get           *)
(* interceptors                                                            *)
(***************************************************************************)
\* The (password, encType) a lookup yields; no rule is no key.
KeyOf(found, rule) ==
    IF found THEN <<rule.Password, rule.EncType>> ELSE <<>>

\* C35: for any path, the (password, encType) used to decrypt a download of
\* it (HandleDownload and the WebDAV GET resolve it with FindByPath) equals
\* the (password, encType) that the upload, list and get interceptors resolve
\* for the same path (with PathFindPasswd), including paths that contain a
\* folder-password segment.
C35_DownloadKeyIsUploadKey ==
    pw.op = "FindByPath" =>
        KeyOf(pw.found, pw.rule)
            = KeyOf(PathFindPasswd(pwList, pw.path).found,
                    PathFindPasswd(pwList, pw.path).rule)

(***************************************************************************)
(* WebDAV DELETE, MOVE and COPY and the display-to-real mapping            *)
(***************************************************************************)
NoContentAnswer == [CreatedAnswer EXCEPT !.StatusCode = 204]

\* What client.Do can return for a DELETE, MOVE or COPY of realPath: a
\* transport error, 404 when the backend holds nothing there, else done
RemovalAnswers(backend, realPath, done) ==
    {NoResponse,
     IF ObjectAt(backend, realPath).exists THEN done ELSE ErrorPageAnswer}

Succeeded(resp) == ~resp.err /\ resp.StatusCode \in {201, 204}

\* The response of a DELETE, MOVE or COPY: the upstream status and body,
\* or 502 when the upstream did not answer
RemovalExchange(handler, davPath, passwdInfo, realPath, resp) ==
    [NoDavExchange EXCEPT
        !.handler = handler, !.path = davPath, !.passwdInfo = passwdInfo,
        !.resp = resp,
        !.out = Outcome4(None, NewWriter, NoCipher, TRUE, TRUE),
        !.final = IF resp.err
                  THEN RespondHTTPErrorWithStatus(NewWriter, ProxyErrorText,
                                                  502, TRUE)
                  ELSE [WriteHeader(NewWriter, resp.StatusCode,
                                    ParsedOrZero(ParseInt(resp.ContentLength)),
                                    <<>>)
                           EXCEPT !.len = resp.readable],
        !.upstream = <<Sent(realPath, resp)>>]

\* WebDAVHandler.handleDelete, given the upstream answer
handleDelete(backend, fileDAO, encPathMap, fileSizeCache, davPath, passwdInfo, resp) ==
    LET realPath == IF ~passwdInfo.Enable \/ ~passwdInfo.EncName THEN davPath
                    ELSE convertToRealPath(encPathMap, davPath, passwdInfo)
    IN Result(RemovalExchange("handleDelete", davPath, passwdInfo, realPath, resp),
              IF Succeeded(resp) THEN Delete(backend, realPath) ELSE backend,
              fileDAO, encPathMap, fileSizeCache)

\* handleMoveOrCopy: the Destination header as it is sent on
MoveDestination(destPath, destPasswd) ==
    IF destPasswd.Enable /\ destPasswd.EncName
    THEN PutRealPath(destPath, destPasswd, Base(destPath))
    ELSE destPath

\* What the backend holds after a MOVE or COPY it answered with success
Moved(backend, realSrcPath, realDestPath, method) ==
    IF method = "MOVE" /\ realSrcPath # realDestPath
    THEN Delete(Store(backend, realDestPath, backend[realSrcPath]), realSrcPath)
    ELSE Store(backend, realDestPath, backend[realSrcPath])

\* WebDAVHandler.handleMoveOrCopy, given the upstream answer
handleMoveOrCopy(backend, fileDAO, encPathMap, fileSizeCache, davPath, passwdInfo, destPath, destPasswd, method, resp) ==
    LET realSrcPath == IF passwdInfo.Enable /\ passwdInfo.EncName
                       THEN convertToRealPath(encPathMap, davPath, passwdInfo)
                       ELSE davPath
    IN Result(RemovalExchange("handleMoveOrCopy", davPath, passwdInfo,
                              realSrcPath, resp),
              IF Succeeded(resp)
              THEN Moved(backend, realSrcPath,
                         MoveDestination(destPath, destPasswd), method)
              ELSE backend,
              fileDAO, encPathMap, fileSizeCache)

\* The files a MOVE or COPY is sent to
Destinations == {<<"encn", "b.bin">>, <<"plain", "a.bin">>}

\* A client sends a WebDAV DELETE and handleDelete answers it.
DvDelete(davPath) ==
    /\ dv = NoDavExchange
    /\ \E passwdInfo \in {FindByPath(PasswdList, davPath)} :
         \E resp \in RemovalAnswers(dvBackend,
                                    convertToRealPath(dvEncPathMap, davPath,
                                                      passwdInfo),
                                    NoContentAnswer) :
            DvCommit(handleDelete(dvBackend, dvFileDAO, dvEncPathMap,
                                  dvFileSizeCache, davPath, passwdInfo, resp))
    /\ UNCHANGED dvUploads
    /\ UNCHANGED otherThanDav

\* A client sends a WebDAV MOVE or COPY and handleMoveOrCopy answers it.
DvMoveOrCopy(davPath, destPath, method) ==
    /\ dv = NoDavExchange
    /\ \E passwdInfo \in {FindByPath(PasswdList, davPath)} :
         \E resp \in RemovalAnswers(dvBackend,
                                    convertToRealPath(dvEncPathMap, davPath,
                                                      passwdInfo),
                                    CreatedAnswer) :
            DvCommit(handleMoveOrCopy(dvBackend, dvFileDAO, dvEncPathMap,
                                      dvFileSizeCache, davPath, passwdInfo,
                                      destPath, FindByPath(PasswdList, destPath),
                                      method, resp))
    /\ UNCHANGED dvUploads
    /\ UNCHANGED otherThanDav

\* The display paths requests are sent for: the files and the name a
\* listing shows for an upload to /encn/a.bin
RemovalFiles == DavFiles \cup {<<"encn", "a">>}

NextDavRemoval ==
    \/ \E davPath \in PropfindPaths : DvPropfind(davPath)
    \/ \E davPath \in DavFiles, up \in Uploads : DvPut(davPath, up)
    \/ \E davPath \in RemovalFiles, r \in DavRequests : DvGet(davPath, r)
    \/ \E davPath \in RemovalFiles : DvDelete(davPath)
    \/ \E davPath \in RemovalFiles, destPath \in Destinations, method \in {"MOVE", "COPY"} :
          DvMoveOrCopy(davPath, destPath, method)
    \/ DvDone

SpecDavRemoval == InitDav /\ [][NextDavRemoval]_vars

\* The handlers that translate the request path through convertToRealPath
\* or, for PROPFIND, through GetEncPath
TranslatingHandlers ==
    {"handleGet", "handleDelete", "handleMoveOrCopy", "handlePropfind"}

\* A request for display path D is answered in this step, and its path is
\* translated through the recorded mapping of D.
TranslatedThroughMapping(D) ==
    /\ dv = NoDavExchange
    /\ dv'.handler \in TranslatingHandlers
    /\ dv'.path = D
    /\ dv'.passwdInfo.Enable
    /\ dv'.passwdInfo.EncName
    /\ D \in DOMAIN dvEncPathMap

\* C36: after a DELETE or MOVE of display path D has succeeded through the
\* WebDAV adapter, no later request for D is translated through the
\* display-to-real mapping recorded before that operation: a mapping is
\* used only while the backend holds the entry it describes, never once
\* that entry has been removed or renamed.
C36_NoRequestThroughStaleMapping ==
    [][\A D \in RemovalFiles :
          TranslatedThroughMapping(D)
              => ObjectAt(dvBackend, dvEncPathMap[D]).exists]_vars

(***************************************************************************)
(* The key-stream position of a partial download                           *)
(***************************************************************************)
\* A backend need not honour Range: besides the answers of one that does,
\* it may send the whole file with 200.
RangeBlindAnswers(obj, rangeHeader) ==
    UpstreamAnswers(obj, rangeHeader)
        \cup (IF obj.exists THEN {WholeAnswer(obj)} ELSE {})

\* HandleDownload with ProxyDownloadDecrypt writing its own headers
FwHandleDownload(displayPath, r) ==
    /\ ft = NoFetch
    /\ \E obj \in {dlBackend[DownloadTarget(PasswdList, displayPath)]} :
         \E resp \in RangeBlindAnswers(obj, r.Range) :
           ft' = Fetched("computing", HeaderNames(r, {}),
                         DownloadRequestHeaders(HeaderNames(r, {})),
                         HandleDownload(PasswdList, dlFileDAO, displayPath, r, obj, resp))
    /\ UNCHANGED otherThanFetch

\* HandleDownload with proxy/stream.go's ProxyDownloadDecrypt
FwHandleDownloadCopying(displayPath, r) ==
    /\ ft = NoFetch
    /\ \E obj \in {dlBackend[DownloadTarget(PasswdList, displayPath)]} :
         \E resp \in RangeBlindAnswers(obj, r.Range) :
           ft' = Fetched("copying", HeaderNames(r, {}),
                         CopiedRequestHeaders(HeaderNames(r, {})),
                         HandleDownloadCopying(PasswdList, dlFileDAO, displayPath,
                                               r, obj, resp))
    /\ UNCHANGED otherThanFetch

NextWindow ==
    \/ \E displayPath \in FetchPaths, r \in FetchRequests :
           FwHandleDownload(displayPath, r)
    \/ \E displayPath \in FetchPaths, r \in FetchRequests :
           FwHandleDownloadCopying(displayPath, r)
    \/ FtDone

SpecWindow == InitFetch /\ [][NextWindow]_vars

\* The proxy answered 206 with decrypted bytes of the stored file.
PartialDecrypted(x) ==
    /\ x.handler = "HandleDownload"
    /\ x.final.status = 206
    /\ x.final.key.ok
    /\ x.final.len > 0
    /\ x.final.src.kind = "file"

\* Byte i read from the upstream body lies at offset src.from + i of the
\* stored ciphertext and is XORed with the key stream at key.position + i.
KeystreamAtOffset(x) == x.final.key.position = x.final.src.from

\* C37: in every download the proxy answers with 206, the key-stream
\* position applied to each byte read from the upstream body equals that
\* byte's absolute offset in the stored ciphertext, whether the upstream
\* answered 206 with the requested window or 200 with the whole file.
C37_KeystreamFollowsUpstreamOffset ==
    PartialDecrypted(ft.x) => KeystreamAtOffset(ft.x)

(***************************************************************************)
(* The generic TTL cache and its single flight (config/config.go Cache,    *)
(* cache/singleflight.go).  A goroutine takes one lock section per step.   *)
(***************************************************************************)
CacheMaxSize == 2       \* Cache.maxSize

DefaultTTL == 1         \* Cache.defaultTTL, in clock ticks

MaxCacheNow == 3        \* the clock's last instant

MaxCalls == 3           \* calls made per run

CacheTTLs == {0, 1, 3}

NoCacheItem == [Value |-> 0, Expiration |-> 0]

\* CacheItem.IsExpired
IsExpired(item, now) == item.Expiration # 0 /\ now > item.Expiration

\* Cache.Get up to its return or its call of Delete
CacheLookup(items, key, now) ==
    IF key \notin DOMAIN items THEN "miss"
    ELSE IF IsExpired(items[key], now) THEN "expired"
    ELSE "hit"

\* evictOne when no item is expired: the item of the least Expiration
\* among those below the instant the scan began and above 0
EvictOldest(items, older) ==
    IF older = {} THEN items
    ELSE Delete(items, CHOOSE k \in older :
                           \A j \in older : items[k].Expiration <= items[j].Expiration)

\* Cache.evictOne: what the map can be afterwards.  The range over the map
\* is in no fixed order: the expired item met first is deleted.
evictOne(items, now) ==
    IF \E k \in DOMAIN items : IsExpired(items[k], now)
    THEN {Delete(items, k) : k \in {j \in DOMAIN items : IsExpired(items[j], now)}}
    ELSE {EvictOldest(items, {k \in DOMAIN items :
                                 items[k].Expiration < now /\ items[k].Expiration > 0})}

\* Cache.SetWithTTL: what the map can be afterwards
SetWithTTL(items, key, value, ttl, now) ==
    {Store(evicted, key,
           [Value |-> value, Expiration |-> IF ttl > 0 THEN now + ttl ELSE 0]) :
        evicted \in IF Cardinality(DOMAIN items) >= CacheMaxSize
                    THEN evictOne(items, now)
                    ELSE {items}}

\* Where a goroutine goes on when Cache.Get found nothing to return
AfterMiss(pc, op) ==
    IF op = "Get" THEN "done" ELSE IF pc = "check" THEN "do" ELSE "load"

\* A goroutine calls the cache.
CgBegin(g, op, key, ttl) ==
    /\ cg[g].pc = "idle"
    /\ cg' = [cg EXCEPT ![g] =
                 [IdleGoroutine EXCEPT
                     !.op = op, !.key = key, !.ttl = ttl, !.val = 1,
                     !.pc = CASE op = "Delete" -> "delete"
                              [] op = "SetWithTTL" -> "set"
                              [] OTHER -> "check",
                     !.next = "done"]]
    /\ UNCHANGED <<ccItems, ccNow, sfM, sfCall>>
    /\ UNCHANGED otherThanCache

\* Cache.Get, the read under RLock: of a Get, of GetOrLoad's first check,
\* or of the check inside the function handed to Do
CgGet(g) ==
    /\ cg[g].pc \in {"check", "recheck"}
    /\ cg' = [cg EXCEPT ![g] =
                 CASE CacheLookup(ccItems, cg[g].key, ccNow) = "hit" ->
                          [@ EXCEPT !.val = ccItems[cg[g].key].Value,
                                    !.pc = IF cg[g].pc = "recheck" THEN "finish"
                                           ELSE "done"]
                   [] CacheLookup(ccItems, cg[g].key, ccNow) = "expired" ->
                          [@ EXCEPT !.pc = "delete",
                                    !.next = AfterMiss(cg[g].pc, cg[g].op)]
                   [] OTHER ->
                          [@ EXCEPT !.val = 0,
                                    !.pc = AfterMiss(cg[g].pc, cg[g].op)]]
    /\ UNCHANGED <<ccItems, ccNow, sfM, sfCall>>
    /\ UNCHANGED otherThanCache

\* Cache.Delete, the first lock section: the item is removed
CgDelete(g) ==
    /\ cg[g].pc = "delete"
    /\ ccItems' = Delete(ccItems, cg[g].key)
    /\ cg' = [cg EXCEPT ![g].pc = "forget"]
    /\ UNCHANGED <<ccNow, sfM, sfCall>>
    /\ UNCHANGED otherThanCache

\* SingleFlight.Forget, called at the end of Cache.Delete
CgForget(g) ==
    /\ cg[g].pc = "forget"
    /\ sfM' = [sfM EXCEPT ![cg[g].key] = 0]
    /\ cg' = [cg EXCEPT ![g].pc = cg[g].next, ![g].val = 0]
    /\ UNCHANGED <<ccItems, ccNow, sfCall>>
    /\ UNCHANGED otherThanCache

\* SingleFlight.Do, the first lock section: the goroutine joins the call
\* registered for the key or registers its own.  (c.dups, which only feeds
\* the third result of Do that GetOrLoad drops, is not kept.)
CgDo(g) ==
    /\ cg[g].pc = "do"
    /\ IF sfM[cg[g].key] # 0
       THEN /\ UNCHANGED sfCall
            /\ cg' = [cg EXCEPT ![g].call = sfM[cg[g].key], ![g].pc = "wait"]
            /\ UNCHANGED sfM
       ELSE /\ Len(sfCall) < MaxCalls
            /\ sfCall' = Append(sfCall, [key |-> cg[g].key, done |-> FALSE,
                                         val |-> 0])
            /\ sfM' = [sfM EXCEPT ![cg[g].key] = Len(sfCall) + 1]
            /\ cg' = [cg EXCEPT ![g].call = Len(sfCall) + 1, ![g].pc = "recheck"]
    /\ UNCHANGED <<ccItems, ccNow>>
    /\ UNCHANGED otherThanCache

\* c.wg.Wait() returns and the joiner takes the call's result
CgWait(g) ==
    /\ cg[g].pc = "wait"
    /\ sfCall[cg[g].call].done
    /\ cg' = [cg EXCEPT ![g].val = sfCall[cg[g].call].val, ![g].pc = "done"]
    /\ UNCHANGED <<ccItems, ccNow, sfM, sfCall>>
    /\ UNCHANGED otherThanCache

\* The loader is called.
CgLoad(g) ==
    /\ cg[g].pc = "load"
    /\ cg' = [cg EXCEPT ![g].pc = "loading"]
    /\ UNCHANGED <<ccItems, ccNow, sfM, sfCall>>
    /\ UNCHANGED otherThanCache

\* The loader returns: a value of its own execution, or an error (-1)
CgLoaded(g, ok) ==
    /\ cg[g].pc = "loading"
    /\ cg' = [cg EXCEPT ![g].val = IF ok THEN 10 + cg[g].call ELSE -1,
                        ![g].ttl = DefaultTTL,
                        ![g].pc = IF ok THEN "set" ELSE "finish"]
    /\ UNCHANGED <<ccItems, ccNow, sfM, sfCall>>
    /\ UNCHANGED otherThanCache

\* Cache.SetWithTTL, called directly or as c.Set(key, result) of GetOrLoad
CgSet(g) ==
    /\ cg[g].pc = "set"
    /\ ccItems' \in SetWithTTL(ccItems, cg[g].key, cg[g].val, cg[g].ttl, ccNow)
    /\ cg' = [cg EXCEPT ![g].pc = IF cg[g].op = "SetWithTTL" THEN "done"
                                  ELSE "finish"]
    /\ UNCHANGED <<ccNow, sfM, sfCall>>
    /\ UNCHANGED otherThanCache

\* SingleFlight.Do after fn: c.val, c.err = fn(); c.wg.Done()
CgFinish(g) ==
    /\ cg[g].pc = "finish"
    /\ sfCall' = [sfCall EXCEPT ![cg[g].call].val = cg[g].val,
                                ![cg[g].call].done = TRUE]
    /\ cg' = [cg EXCEPT ![g].pc = "unregister"]
    /\ UNCHANGED <<ccItems, ccNow, sfM>>
    /\ UNCHANGED otherThanCache

\* SingleFlight.Do, the last lock section: delete(g.m, key)
CgUnregister(g) ==
    /\ cg[g].pc = "unregister"
    /\ sfM' = [sfM EXCEPT ![cg[g].key] = 0]
    /\ cg' = [cg EXCEPT ![g].pc = "done"]
    /\ UNCHANGED <<ccItems, ccNow, sfCall>>
    /\ UNCHANGED otherThanCache

\* The call has returned to its caller.
CgReturn(g) ==
    /\ cg[g].pc = "done"
    /\ cg' = [cg EXCEPT ![g] = IdleGoroutine]
    /\ UNCHANGED <<ccItems, ccNow, sfM, sfCall>>
    /\ UNCHANGED otherThanCache

\* The clock moves on.
CcTick ==
    /\ ccNow < MaxCacheNow
    /\ ccNow' = ccNow + 1
    /\ UNCHANGED <<ccItems, sfM, sfCall, cg>>
    /\ UNCHANGED otherThanCache

\* GetOrLoad, Get and Delete of one key by two goroutines
NextSingleFlight ==
    \/ \E g \in Goroutines, op \in {"GetOrLoad", "Get", "Delete"} :
           CgBegin(g, op, "k1", 0)
    \/ \E g \in Goroutines : CgGet(g)
    \/ \E g \in Goroutines : CgDelete(g)
    \/ \E g \in Goroutines : CgForget(g)
    \/ \E g \in Goroutines : CgDo(g)
    \/ \E g \in Goroutines : CgWait(g)
    \/ \E g \in Goroutines : CgLoad(g)
    \/ \E g \in Goroutines, ok \in BOOLEAN : CgLoaded(g, ok)
    \/ \E g \in Goroutines : CgSet(g)
    \/ \E g \in Goroutines : CgFinish(g)
    \/ \E g \in Goroutines : CgUnregister(g)
    \/ \E g \in Goroutines : CgReturn(g)
    \/ CcTick

SpecSingleFlight == InitCalc /\ [][NextSingleFlight]_vars

\* The goroutines whose loader for key is running
Loading(key) == {g \in Goroutines : cg[g].pc = "loading" /\ cg[g].key = key}

\* C38: for concurrent GetOrLoad calls on the same key the loader is
\* executed only once at a time: no second loader execution for that key
\* starts while one is in flight, also when Delete(key) or an
\* expiry-triggered Get of that key runs concurrently, and every caller
\* that joined an execution receives that execution's result.
C38_OneLoaderInFlight ==
    /\ \A key \in CacheKeys : Cardinality(Loading(key)) <= 1
    /\ \A g \in Goroutines :
          (cg[g].pc = "done" /\ cg[g].op = "GetOrLoad" /\ cg[g].call # 0)
              => cg[g].val = sfCall[cg[g].call].val

\* SetWithTTL of three keys with any TTL, by two goroutines
NextEviction ==
    \/ \E g \in Goroutines, key \in CacheKeys, ttl \in CacheTTLs :
           CgBegin(g, "SetWithTTL", key, ttl)
    \/ \E g \in Goroutines : CgSet(g)
    \/ \E g \in Goroutines : CgReturn(g)
    \/ CcTick

SpecEviction == InitCalc /\ [][NextEviction]_vars

\* C39: the generic TTL cache evicts when at capacity: after any Set or
\* SetWithTTL completes, the cache holds at most maxSize items, whatever
\* the TTLs of the stored items.
C39_AtMostMaxSizeItems ==
    (\E g \in Goroutines : cg[g].pc = "done" /\ cg[g].op = "SetWithTTL")
        => Cardinality(DOMAIN ccItems) <= CacheMaxSize

(***************************************************************************)
(* The file-size cache and its eviction list (dao/filesize_cache.go).      *)
(* Every method runs under the cache's mutex.                              *)
(***************************************************************************)
FsMaxSize == 2          \* FileSizeCache.maxSize

MaxFsNow == 2           \* the clock's last instant

FsSizes == {100, MinFileSizeForCache}

FsTTLs == {1, 2}

\* FileSizeCache.Get
FileSizeCacheGet(entries, path, now) ==
    IF path \notin DOMAIN entries THEN [size |-> 0, ok |-> FALSE]
    ELSE IF now > entries[path].ExpiresAt THEN [size |-> 0, ok |-> FALSE]
    ELSE IF entries[path].Size < MinFileSizeForCache THEN [size |-> 0, ok |-> FALSE]
    ELSE [size |-> entries[path].Size, ok |-> TRUE]

\* FileSizeCache.Set: the entries and the list afterwards
FileSizeCacheSet(entries, lruList, path, size, ttl, now) ==
    LET entry == [Size |-> size, ExpiresAt |-> now + ttl]
    IN IF path \in DOMAIN entries
       THEN [entries |-> Store(entries, path, entry), lruList |-> lruList]
       ELSE IF Len(lruList) + 1 > FsMaxSize
       THEN [entries |-> Delete(Store(entries, path, entry), Head(Append(lruList, path))),
             lruList |-> Tail(Append(lruList, path))]
       ELSE [entries |-> Store(entries, path, entry),
             lruList |-> Append(lruList, path)]

\* FileSizeCache.CleanExpired: the entries and the rebuilt list
FileSizeCacheClean(entries, lruList, now) ==
    LET kept == {p \in DOMAIN entries : ~(now > entries[p].ExpiresAt)}
    IN [entries |-> [p \in kept |-> entries[p]],
        lruList |-> IF kept = DOMAIN entries THEN lruList
                    ELSE SelectSeq(lruList, LAMBDA p : p \in kept)]

\* What a Set of path does to the record kept for q: the size and the
\* expiry set for path itself, with the insertions of other paths counted
\* from the insertion of path; one more insertion of another path for the
\* rest
SinceSet(since, q, path, size, ttl, now, inserted) ==
    IF q = path
    THEN [set |-> TRUE, Size |-> size, ExpiresAt |-> now + ttl,
          others |-> IF inserted THEN 0 ELSE since.others]
    ELSE IF inserted /\ since.set /\ since.others < FsMaxSize
    THEN [since EXCEPT !.others = @ + 1]
    ELSE since

\* FileSizeCache.Set
FsSet(path, size, ttl) ==
    /\ \E after \in {FileSizeCacheSet(fsEntries, fsLru, path, size, ttl, fsNow)} :
          /\ fsEntries' = after.entries
          /\ fsLru' = after.lruList
    /\ fsSince' = [q \in SizePaths |->
                      SinceSet(fsSince[q], q, path, size, ttl, fsNow,
                               path \notin DOMAIN fsEntries)]
    /\ fsLast' = NoGet
    /\ UNCHANGED fsNow
    /\ UNCHANGED otherThanSizes

\* FileSizeCache.Delete: the entry goes, the list stays as it is
FsDelete(path) ==
    /\ fsEntries' = Delete(fsEntries, path)
    /\ fsSince' = [fsSince EXCEPT ![path] = NotSet]
    /\ fsLast' = NoGet
    /\ UNCHANGED <<fsLru, fsNow>>
    /\ UNCHANGED otherThanSizes

\* FileSizeCache.Get
FsGet(path) ==
    /\ fsLast' = [path |-> path,
                  size |-> FileSizeCacheGet(fsEntries, path, fsNow).size,
                  ok |-> FileSizeCacheGet(fsEntries, path, fsNow).ok]
    /\ UNCHANGED <<fsEntries, fsLru, fsNow, fsSince>>
    /\ UNCHANGED otherThanSizes

\* FileSizeCache.CleanExpired
FsCleanExpired ==
    /\ \E after \in {FileSizeCacheClean(fsEntries, fsLru, fsNow)} :
          /\ fsEntries' = after.entries
          /\ fsLru' = after.lruList
    /\ fsLast' = NoGet
    /\ UNCHANGED <<fsNow, fsSince>>
    /\ UNCHANGED otherThanSizes

\* The clock moves on.
FsTick ==
    /\ fsNow < MaxFsNow
    /\ fsNow' = fsNow + 1
    /\ fsLast' = NoGet
    /\ UNCHANGED <<fsEntries, fsLru, fsSince>>
    /\ UNCHANGED otherThanSizes

NextFileSize ==
    \/ \E path \in SizePaths, size \in FsSizes, ttl \in FsTTLs : FsSet(path, size, ttl)
    \/ \E path \in SizePaths : FsDelete(path)
    \/ \E path \in SizePaths : FsGet(path)
    \/ FsCleanExpired
    \/ FsTick

SpecFileSize == InitCalc /\ [][NextFileSize]_vars

\* Since Set(p, s, ttl) with s >= 1024 the TTL has not elapsed, Delete(p)
\* has not been called, and fewer than maxSize other paths were inserted
\* since p was.
StillDue(p) ==
    /\ fsSince[p].set
    /\ fsSince[p].Size >= MinFileSizeForCache
    /\ fsNow <= fsSince[p].ExpiresAt
    /\ fsSince[p].others < FsMaxSize

\* C40: in the file-size cache the path evicted on overflow is the one
\* inserted earliest among those present, never the path just set: after
\* Set(p, s, ttl) with s >= 1024, Get(p) returns s until the TTL elapses,
\* Delete(p) is called, or maxSize other paths have been inserted, for
\* every interleaving of Set, Delete and Get.
C40_SetPathStaysUntilDue ==
    \A p \in SizePaths :
        StillDue(p) =>
            FileSizeCacheGet(fsEntries, p, fsNow) = [size |-> fsSince[p].Size, ok |-> TRUE]

====
